---- MODULE Spec2Model ----
(***************************************************************************)
(* Agent Control Panel: the controller's command transport (ACPTransport)  *)
(* and the userscript agent's run orchestrator (runWorkflow/handleMessage).*)
(*                                                                         *)
(* SpecTransport : one ACPTransport instance; the callers' sendCommand     *)
(*                 calls, the timers it arms and the messages arriving on  *)
(*                 the broadcast medium are the environment.               *)
(* SpecAgent     : one agent page; the control messages it receives and    *)
(*                 the outcome of every step attempt are the environment.  *)
(* SpecRestart   : one agent page receiving START_RUN commands only,       *)
(*                 repeated ones included, through several runs.           *)
(* SpecKillSwitch: one agent page receiving START_RUN commands while the   *)
(*                 kill switch is toggled.                                 *)
(* SpecTimeout   : one run whose step attempts can outlast their timeout.  *)
(* SpecMalformed : one agent page receiving malformed command envelopes.    *)
(* SpecRetry     : one run whose first step is retried up to six times.      *)
(* SpecWaiting   : one run whose first step waits, under fair timers.        *)
(* SpecEvaluate  : one run whose first step evaluates code.                  *)
(* SpecTemplate  : one run of a workflow whose steps hold {{key}} templates.  *)
(* SpecValidate  : validateMessage applied to one received value.          *)
(* SpecSelect    : one call of pickNextPost or jaccardSimilarity on a pool   *)
(*                 and a history of texts.                                 *)
(* SpecSignals   : the controller's buttons and kill-switch toggle over its   *)
(*                 transport.                                              *)
(* SpecDuplicate : the controller reduces some broadcasts twice.              *)
(* SpecUnacknowledged: the controller starts the runs of two jobs.        *)
(* SpecSettle    : one transport whose armed timers all fire.              *)
(* SpecController: the controller's Run records under the user's buttons   *)
(*                 and the events of the agent running the job.            *)
(***************************************************************************)
EXTENDS Integers, Sequences, FiniteSets, TLC

(***************************************************************************)
(* Bounds of the transport model.                                          *)
(***************************************************************************)
MaxCalls == 2          \* sendCommand calls per behaviour
MaxRetriesArg == 1     \* largest `retries` argument of sendCommand
MaxIncoming == 2       \* messages arriving at the transport per behaviour

(***************************************************************************)
(* JavaScript values, tagged by their typeof.                              *)
(***************************************************************************)
JsStr(s) == [tag |-> "string", s |-> s]
JsNull == [tag |-> "null"]
JsBool(b) == [tag |-> "boolean", b |-> b]
JsObj(f) == [tag |-> "object", f |-> f]

\* isObject: typeof value === "object" && value !== null
isObject(value) == value.tag = "object"

\* property names every object literal inherits from Object.prototype
ObjectPrototypeKeys == {"constructor", "toString", "valueOf", "hasOwnProperty"}

OwnKeyIn(key, object) == key \in DOMAIN object

\* key in object
KeyIn(key, object) == key \in DOMAIN object \/ key \in ObjectPrototypeKeys

hasSomeKey(value, keys) == \E key \in keys : KeyIn(key, value.f)

\* hasKeys: keys.every((key) => key in value)
hasKeys(value, keys) == \A key \in keys : KeyIn(key, value.f)

\* message-schema.json: discriminator -> required payload keys
schemaTypes ==
  [ CONTROL_START_RUN |-> {"requestId", "runId", "jobId", "workflow", "rows", "settings", "resumeFrom"},
    CONTROL_PAUSE_RUN |-> {"requestId", "runId"},
    CONTROL_RESUME_RUN |-> {"requestId", "runId"},
    CONTROL_STOP_RUN |-> {"requestId", "runId"},
    CONTROL_KILL_SWITCH |-> {"requestId", "enabled"},
    CONTROL_STEP_NEXT |-> {"requestId", "runId", "rowIndex", "stepIndex"},
    CONTROL_HELLO |-> {"requestId", "appVersion", "protocolVersion"},
    CONTROL_PING |-> {"requestId"},
    AGENT_ACK |-> {"requestId", "commandType", "ok", "error"},
    AGENT_STATUS |-> {"runId", "status", "currentRowIndex", "message", "successCount", "failureCount"},
    AGENT_LOG |-> {"runId", "rowIndex", "stepIndex", "level", "message", "timestamp"},
    AGENT_ROW_RESULT |-> {"runId", "rowIndex", "status", "error", "artifacts"},
    AGENT_HELLO |-> {"requestId", "agentVersion", "protocolVersion", "tabUrl", "site"},
    AGENT_PONG |-> {"requestId", "tabUrl", "site", "uptimeMs"} ]

baseTypeKeys == DOMAIN schemaTypes

validateAnyObject(message) == isObject(message)

validateMessage(message) ==
  IF ~isObject(message) THEN FALSE
  ELSE IF ~("type" \in DOMAIN message.f /\ message.f.type.tag = "string") THEN FALSE
  ELSE IF message.f.type.s \notin baseTypeKeys THEN FALSE
  ELSE IF ~("payload" \in DOMAIN message.f /\ isObject(message.f.payload)) THEN FALSE
  ELSE hasKeys(message.f.payload, schemaTypes[message.f.type.s])

(***************************************************************************)
(* Messages the transport model is driven with.                            *)
(***************************************************************************)
RequestIds == {"r1", "r2"}

\* a command as the controller builds it; withId = FALSE leaves requestId out
Command(type, requestId, withId) ==
  JsObj([type |-> JsStr(type),
         payload |-> JsObj(IF withId
                           THEN [requestId |-> JsStr(requestId), runId |-> JsStr("run")]
                           ELSE [runId |-> JsStr("run")])])

OutgoingCommands ==
  { Command("CONTROL_PAUSE_RUN", "r1", TRUE), Command("CONTROL_STOP_RUN", "r2", TRUE),
    Command("CONTROL_PAUSE_RUN", "", FALSE) }

\* the retries arguments tried: none, and the largest
RetriesArgs == {0, MaxRetriesArg}

Ack(requestId, ok) ==
  JsObj([type |-> JsStr("AGENT_ACK"),
         payload |-> JsObj([requestId |-> JsStr(requestId), commandType |-> JsStr("CONTROL_PAUSE_RUN"),
                            ok |-> JsBool(ok), error |-> JsStr("")])])

IncomingMessages ==
  {Ack(r, TRUE) : r \in RequestIds}
    \cup { JsObj([type |-> JsStr("AGENT_ACK"), payload |-> JsObj([requestId |-> JsStr("r1")])]),
           JsObj([type |-> JsStr("AGENT_PONG"),
                  payload |-> JsObj([requestId |-> JsStr("r1"), tabUrl |-> JsStr("u"),
                                     site |-> JsStr("s"), uptimeMs |-> JsStr("1")])]),
           JsObj([type |-> JsStr("NOT_A_TYPE"), payload |-> JsObj([requestId |-> JsStr("r1")])]),
           JsNull }

ErrNoRequestId == "Command messages must include a requestId."
ErrConflict == "Another command is already in flight."
ErrNoAck == "No ACK received from agent."

VARIABLES
  pending,     \* ACPTransport.pending: requestId -> entry
  timers,      \* armed window.setTimeout callbacks of dispatchWithRetry
  sent,        \* messages passed to ACPTransport.send, in order, each with the
               \* promise of the pending entry it was sent for
  futures,     \* the promises returned by sendCommand, in call order, each
               \* with the arguments of its call
  delivered,   \* messages handed to the subscribed listeners, in order
  dropped,     \* history: the values ACPTransport.handleIncoming returned on at once
  storageState,\* the agent's storageState object
  loops,       \* the runWorkflow invocations, in start order, each at its await
  events,      \* AGENT_STATUS / AGENT_LOG / AGENT_ROW_RESULT broadcasts, in order
  late,        \* step attempts that lost the timeout race and still run
  killRequested,  \* history: the run in progress has received CONTROL_KILL_SWITCH
               \* with enabled = true
  pauseRequested, \* history: the run in progress has received CONTROL_PAUSE_RUN
               \* and no CONTROL_RESUME_RUN after it
  runs,        \* the controller's state.runs: Run records by id
  reduced,     \* how many of the agent's events the controller has reduced
  candidate,   \* the value handed to validateMessage
  verdict,     \* what validateMessage returned for it, "none" before the call
  pool,        \* the pool argument of pickNextPost: texts, in order
  recent,      \* the recent argument of pickNextPost: the history, newest first
  threshold,   \* the threshold argument of pickNextPost
  picked,      \* what pickNextPost returned, NotPicked before the call
  score        \* a call of jaccardSimilarity and what it returned, NoScore before

tvars == <<pending, timers, sent, futures, delivered, dropped>>

avars == <<storageState, loops, events, late, killRequested, pauseRequested>>

cvars == <<runs, reduced>>

svars == <<pool, recent, threshold, picked, score>>

mvars == <<candidate, verdict, svars>>

vars == <<pending, timers, sent, futures, delivered, dropped, storageState, loops, events, late,
          killRequested, pauseRequested, runs, reduced, candidate, verdict,
          pool, recent, threshold, picked, score>>

\* extractRequestId: payload.requestId ?? null
extractRequestId(message) ==
  IF "payload" \in DOMAIN message.f /\ isObject(message.f.payload)
  THEN IF "requestId" \in DOMAIN message.f.payload.f
       THEN message.f.payload.f.requestId
       ELSE JsNull
  ELSE JsNull

\* !requestId
Falsy(v) == v.tag = "null" \/ (v.tag = "string" /\ v.s = "")

MapKeep(map, key) == map

\* Map.delete
MapDelete(map, key) == [k \in DOMAIN map \ {key} |-> map[k]]

\* Map.set
MapSet(map, key, value) == [k \in DOMAIN map \cup {key} |-> IF k = key THEN value ELSE map[k]]

\* the promise a sendCommand call returns, with the call's arguments
NewFuture(message, retries, state, value) ==
  [state |-> state, value |-> value, settled |-> IF state = "pending" THEN 0 ELSE 1,
   message |-> message, retries |-> retries]

\* resolve()/reject() of a promise: only the first call settles it
Settle(fs, fut, state, value) ==
  [fs EXCEPT ![fut] = IF @.state = "pending"
                      THEN [@ EXCEPT !.state = state, !.value = value, !.settled = @ + 1]
                      ELSE [@ EXCEPT !.settled = @ + 1]]

TInit ==
  /\ pending = << >>
  /\ timers = {}
  /\ sent = << >>
  /\ futures = << >>
  /\ delivered = << >>
  /\ dropped = {}

InFlightLax(pend) == Cardinality(DOMAIN pend) >= 2

\* this.pending.size >= 1
InFlight(pend) == Cardinality(DOMAIN pend) >= 1

RetriesExhaustedEarly(current) == current.retriesLeft <= 1

\* current.retriesLeft <= 0
RetriesExhausted(current) == current.retriesLeft <= 0

\* dispatchWithRetry up to the arming of its timer: send the entry's message
\* and arm a timer that remembers the requestId only (owner names the promise
\* the entry held when the timer was armed); armed = the timers armed before
dispatchWithRetry(requestId, pend, armed) ==
  IF requestId \notin DOMAIN pend
  THEN /\ sent' = sent
       /\ timers' = armed
  ELSE /\ sent' = Append(sent, [message |-> pend[requestId].message, for |-> pend[requestId].fut])
       /\ timers' = armed \cup
                      {[requestId |-> requestId, owner |-> pend[requestId].fut, seq |-> Len(sent) + 1]}

sendCommand(message, timeoutMs, retries) ==
  /\ Len(futures) < MaxCalls
  /\ LET requestId == extractRequestId(message)
         fut == Len(futures) + 1
     IN IF Falsy(requestId)
        THEN /\ futures' = Append(futures, NewFuture(message, retries, "rejected", JsStr(ErrNoRequestId)))
             /\ UNCHANGED <<pending, timers, sent>>
        ELSE IF InFlight(pending)
        THEN /\ futures' = Append(futures, NewFuture(message, retries, "rejected", JsStr(ErrConflict)))
             /\ UNCHANGED <<pending, timers, sent>>
        ELSE LET set == MapSet(pending, requestId.s,
                               [fut |-> fut, retriesLeft |-> retries, message |-> message,
                                timeoutMs |-> timeoutMs])
             IN /\ futures' = Append(futures, NewFuture(message, retries, "pending", JsNull))
                /\ pending' = set
                /\ dispatchWithRetry(requestId.s, set, timers)
  /\ UNCHANGED <<delivered, dropped>>

\* the window.setTimeout callback armed by dispatchWithRetry; nothing ever
\* calls clearTimeout, so a timer stays armed until it fires
TimerFires(t) ==
  /\ t \in timers
  /\ IF t.requestId \notin DOMAIN pending
     THEN /\ timers' = timers \ {t}
          /\ UNCHANGED <<pending, sent, futures>>
     ELSE LET current == pending[t.requestId]
              decremented == [pending EXCEPT ![t.requestId].retriesLeft = @ - 1]
          IN IF RetriesExhausted(current)
             THEN /\ pending' = MapDelete(pending, t.requestId)
                  /\ futures' = Settle(futures, current.fut, "rejected", JsStr(ErrNoAck))
                  /\ timers' = timers \ {t}
                  /\ UNCHANGED sent
             ELSE /\ pending' = decremented
                  /\ dispatchWithRetry(t.requestId, decremented, timers \ {t})
                  /\ UNCHANGED futures
  /\ UNCHANGED <<delivered, dropped>>

\* ACPTransport.handleIncoming
handleIncoming(message) ==
  /\ Len(delivered) + Cardinality(dropped) < MaxIncoming
  /\ IF ~validateMessage(message)
     THEN /\ dropped' = dropped \cup {message}
          /\ UNCHANGED <<pending, futures, delivered>>
     ELSE /\ IF message.f.type.s = "AGENT_ACK"
                  /\ message.f.payload.f.requestId.tag = "string"
                  /\ message.f.payload.f.requestId.s \in DOMAIN pending
             THEN LET key == message.f.payload.f.requestId.s
                  IN /\ pending' = MapDelete(pending, key)
                     /\ futures' = Settle(futures, pending[key].fut, "resolved", message.f.payload)
             ELSE UNCHANGED <<pending, futures>>
          /\ delivered' = Append(delivered, message)
          /\ UNCHANGED dropped
  /\ UNCHANGED <<timers, sent>>

TNext ==
  \/ \E m \in OutgoingCommands, r \in RetriesArgs : sendCommand(m, 4000, r) /\ UNCHANGED <<avars, cvars, mvars>>
  \/ \E t \in timers : TimerFires(t) /\ UNCHANGED <<avars, cvars, mvars>>
  \/ \E m \in IncomingMessages : handleIncoming(m) /\ UNCHANGED <<avars, cvars, mvars>>

(***************************************************************************)
(* The agent (userscript).  Bounds of the agent model.                     *)
(***************************************************************************)
MaxRows == 2           \* rows.length of the jobs started
MaxStepRetries == 1    \* largest step.retries of the workflows started
MaxLate == 1           \* attempts still running after losing the timeout race
MaxPausePolls == 1     \* AGENT_STATUS paused broadcasts per behaviour
MaxRuns == 2           \* runWorkflow invocations per behaviour of SpecRestart
MaxBlocked == 1        \* START_RUN commands received with the kill switch on, per behaviour

MAX_BACKOFF_MS == 8000

RunIds == {"a", "b"}
AgentRequestIds == {"q1", "q2"}

\* WorkflowStep; retries and timeoutMs are optional, BareStep has neither
WorkflowStep(type, retries, timeoutMs) == [type |-> type, retries |-> retries, timeoutMs |-> timeoutMs]
BareStep(type) == [type |-> type]

\* the workflow the runs execute: a synchronous step, then an awaited one with retries
Workflow ==
  [id |-> "wf", name |-> "workflow",
   steps |-> << BareStep("click"),
                WorkflowStep("wait_for_selector", MaxStepRetries, 15000) >>]

\* createDefaultSettings, and the RunSettings flags the agent reads
RunSettings(bestEffort, dryRun, stepThrough) ==
  [timeoutMs |-> 15000, delayMinMs |-> 300, delayMaxMs |-> 900,
   bestEffort |-> bestEffort, dryRun |-> dryRun, stepThrough |-> stepThrough]

\* the rows of a job: row i is the mapping [url |-> i]
Rows(n) == [i \in 1..n |-> [url |-> i]]

StartRun(requestId, runId, settings, resumeFrom) ==
  [type |-> "CONTROL_START_RUN",
   payload |-> [requestId |-> requestId, runId |-> runId, jobId |-> "job", workflow |-> Workflow,
                rows |-> Rows(MaxRows), settings |-> settings, resumeFrom |-> resumeFrom]]

RunCommand(type, requestId, runId) == [type |-> type, payload |-> [requestId |-> requestId, runId |-> runId]]

KillSwitch(requestId, enabled) ==
  [type |-> "CONTROL_KILL_SWITCH", payload |-> [requestId |-> requestId, enabled |-> enabled]]

StepNext(requestId, runId, rowIndex, stepIndex) ==
  [type |-> "CONTROL_STEP_NEXT",
   payload |-> [requestId |-> requestId, runId |-> runId, rowIndex |-> rowIndex, stepIndex |-> stepIndex]]

Hello(requestId) ==
  [type |-> "CONTROL_HELLO", payload |-> [requestId |-> requestId, appVersion |-> "1.0.0", protocolVersion |-> "1.1.0"]]

Ping(requestId) == [type |-> "CONTROL_PING", payload |-> [requestId |-> requestId]]

\* a workflow whose first step sleeps: its delay can outlast the step timeout
TimedWorkflow ==
  [id |-> "wt", name |-> "timed workflow",
   steps |-> << WorkflowStep("wait_time", MaxStepRetries, 15000), BareStep("click") >>]

\* the START_RUN commands of SpecTimeout
TimedCommands ==
  {[StartRun("q1", "a", RunSettings(FALSE, FALSE, FALSE), 0) EXCEPT !.payload.workflow = TimedWorkflow],
   [StartRun("q2", "b", RunSettings(TRUE, FALSE, FALSE), 0) EXCEPT !.payload.workflow = TimedWorkflow]}

\* run "a" stops at a failed row, run "b" is best-effort; one step-through job
StartCommands ==
  {StartRun("q1", "a", RunSettings(FALSE, FALSE, FALSE), k) : k \in 0..MaxRows}
    \cup {StartRun("q2", "b", RunSettings(TRUE, FALSE, FALSE), k) : k \in 0..MaxRows}
    \cup {StartRun("q2", "a", RunSettings(FALSE, FALSE, TRUE), MaxRows - 1)}

ControlCommands ==
  {RunCommand(t, "q1", r) : t \in {"CONTROL_PAUSE_RUN", "CONTROL_RESUME_RUN", "CONTROL_STOP_RUN"}, r \in RunIds}
    \cup {KillSwitch("q1", e) : e \in BOOLEAN}
    \cup {StepNext("q2", "a", MaxRows - 1, j) : j \in 0..(Len(Workflow.steps) - 1)}
    \cup {StepNext("q2", "b", MaxRows - 1, 0), Hello("q1"), Ping("q2")}

(***************************************************************************)
(* Broadcasts.  A world w is what one synchronous stretch of agent code    *)
(* works on: w.ss = storageState, w.events = the run events broadcast so   *)
(* far, w.outbox = the other broadcasts of this stretch (AGENT_ACK,        *)
(* AGENT_HELLO, AGENT_PONG), w.task = the locals of the runWorkflow        *)
(* invocation being advanced.                                              *)
(***************************************************************************)
\* state.successCount and state.failureCount of the object handed to
\* sendStatus; storageState has neither, the payload then carries none
Counts(state) ==
  IF "successCount" \in DOMAIN state
  THEN [successCount |-> state.successCount, failureCount |-> state.failureCount]
  ELSE << >>

sendStatus(w, runId, status, state, message) ==
  [w EXCEPT !.events = Append(@, [type |-> "AGENT_STATUS", runId |-> runId, status |-> status,
                                  currentRowIndex |-> state.currentRowIndex, message |-> message]
                                   @@ Counts(state))]

sendLog(w, runId, rowIndex, stepIndex, level, message) ==
  [w EXCEPT !.events = Append(@, [type |-> "AGENT_LOG", runId |-> runId, rowIndex |-> rowIndex,
                                  stepIndex |-> stepIndex, level |-> level, message |-> message])]

sendRowResult(w, runId, rowIndex, status, error) ==
  [w EXCEPT !.events = Append(@, [type |-> "AGENT_ROW_RESULT", runId |-> runId, rowIndex |-> rowIndex,
                                  status |-> status, error |-> error])]

sendAck(w, requestId, commandType, ok, error) ==
  [w EXCEPT !.outbox = Append(@, [type |-> "AGENT_ACK", requestId |-> requestId,
                                  commandType |-> commandType, ok |-> ok, error |-> error])]


(***************************************************************************)
(* runWorkflow, cut at its awaits.  Between two awaits the code runs       *)
(* without any other callback of the page interleaving.                    *)
(***************************************************************************)
Null == "null"

RunId(w) == w.task.payload.runId
Steps(w) == w.task.payload.workflow.steps
Settings(w) == w.task.payload.settings

ReturnAndGoOn(w) == w

\* return from runWorkflow
Return(w) == [w EXCEPT !.task.pc = "done"]

\* lines 863-865: the row loop ran to its end
Complete(w) ==
  LET done == [w EXCEPT !.ss.status = "complete", !.ss.runId = Null]
  IN Return(sendStatus(done, RunId(w), "complete", w.task.state, "Run complete"))

\* step.retries ?? 0
RetriesOf(step) == IF "retries" \in DOMAIN step THEN step.retries ELSE 0

\* step.timeoutMs ?? settings.timeoutMs
TimeoutOf(step, settings) == IF "timeoutMs" \in DOMAIN step THEN step.timeoutMs ELSE settings.timeoutMs

BackoffUncapped(attempt) == 500 * (2 ^ attempt)

\* Math.min(500 * 2 ** attempt, MAX_BACKOFF_MS)
Backoff(attempt) == IF 500 * (2 ^ attempt) < MAX_BACKOFF_MS THEN 500 * (2 ^ attempt) ELSE MAX_BACKOFF_MS

\* retryWithBackoff calls fn(): executeStep starts and the loop awaits the race
BeginAttempt(w, stepIndex, attempt) ==
  [w EXCEPT !.task.pc = "exec", !.task.stepIndex = stepIndex, !.task.attempt = attempt,
            !.task.backoff = IF attempt = 0 THEN 0 ELSE @]

RECURSIVE RowLoop(_, _)

EndsRunOnFailureNever(settings) == FALSE

EndsRunOnFailureAlways(settings) == TRUE

\* line 856: if (!settings.bestEffort) { sendStatus(..., "error", ...); return; }
EndsRunOnFailure(settings) == ~settings.bestEffort

CountRowAsSuccess(state, rowFailed) == [state EXCEPT !.successCount = @ + 1]

\* lines 840 and 849: state.failureCount += 1, state.successCount += 1
CountRow(state, rowFailed) ==
  IF rowFailed
  THEN [state EXCEPT !.failureCount = @ + 1]
  ELSE [state EXCEPT !.successCount = @ + 1]

\* lines 839-861: after the step loop
RowEnd(w) ==
  LET t == w.task
  IN IF t.rowFailed
     THEN LET counted == [w EXCEPT !.task.state = CountRow(@, TRUE)]
              error == IF t.rowErrorMessage = "" THEN "Row failed during execution" ELSE t.rowErrorMessage
              reported == sendRowResult(counted, RunId(w), t.rowIndex, "failed", error)
          IN IF EndsRunOnFailure(Settings(w))
             THEN Return(sendStatus(reported, RunId(w), "error", reported.task.state, "Row failed"))
             ELSE RowLoop(reported, t.rowIndex + 1)
     ELSE LET counted == [w EXCEPT !.task.state = CountRow(@, FALSE)]
          IN RowLoop(sendRowResult(counted, RunId(w), t.rowIndex, "success", Null), t.rowIndex + 1)

\* lines 812-818: top of the step loop
StepLoop(w, stepIndex) ==
  IF stepIndex >= Len(Steps(w))
  THEN RowEnd(w)
  ELSE IF Settings(w).stepThrough
       THEN [w EXCEPT !.task.pc = "stepWait", !.task.stepIndex = stepIndex]
       ELSE BeginAttempt(w, stepIndex, 0)

\* lines 801-811: after the pause loop
AfterPause(w, rowIndex) ==
  IF w.ss.killSwitchEnabled
  THEN LET stopped == [w EXCEPT !.ss.stopped = TRUE]
       IN Return(sendStatus(stopped, RunId(w), "stopped", w.task.state, "Kill switch enabled"))
  ELSE LET entered == [w EXCEPT !.task.state.currentRowIndex = rowIndex,
                                !.task.rowFailed = FALSE,
                                !.task.rowErrorMessage = ""]
       IN StepLoop(sendStatus(entered, RunId(w), "running", entered.task.state, "Processing row"), 0)

\* line 797: the condition of while (storageState.paused)
Suspended(ss) == ss.paused

\* lines 797-800: while (storageState.paused) { sendStatus; await delay(500) }
PauseLoop(w, rowIndex) ==
  IF Suspended(w.ss)
  THEN [sendStatus(w, RunId(w), "paused", w.task.state, "Run paused") EXCEPT !.task.pc = "pauseWait"]
  ELSE AfterPause(w, rowIndex)

\* lines 789-796: top of the row loop
RowLoop(w, rowIndex) ==
  LET at == [w EXCEPT !.task.rowIndex = rowIndex]
  IN IF rowIndex >= Len(w.task.payload.rows)
     THEN Complete(at)
     ELSE LET seen == IF at.ss.killSwitchEnabled THEN [at EXCEPT !.ss.stopped = TRUE] ELSE at
          IN IF seen.ss.stopped
             THEN Return(sendStatus(seen, RunId(w), "stopped", seen.task.state, "Run stopped"))
             ELSE PauseLoop(seen, rowIndex)

NewTaskCountingSkipped(payload) ==
  [pc |-> "done", payload |-> payload, rowIndex |-> payload.resumeFrom, stepIndex |-> 0, attempt |-> 0,
   rowFailed |-> FALSE, rowErrorMessage |-> "", variables |-> << >>, backoff |-> 0,
   state |-> [currentRowIndex |-> payload.resumeFrom, successCount |-> payload.resumeFrom, failureCount |-> 0]]

\* lines 767, 779-783 and 786 (const vars = {}): the locals of a runWorkflow
\* invocation
NewTask(payload) ==
  [pc |-> "done", payload |-> payload, rowIndex |-> payload.resumeFrom, stepIndex |-> 0, attempt |-> 0,
   rowFailed |-> FALSE, rowErrorMessage |-> "", variables |-> << >>, backoff |-> 0,
   state |-> [currentRowIndex |-> payload.resumeFrom, successCount |-> 0, failureCount |-> 0]]

FirstRowZero(payload) == 0

\* line 789: for (let rowIndex = resumeFrom; ...)
FirstRow(payload) == payload.resumeFrom

\* lines 766-789 and 997-1000: runWorkflow up to its first await; reading
\* rows.length of a payload without rows throws, and the catch of
\* handleMessage broadcasts the status error built from storageState
runWorkflow(w, payload) ==
  LET called == [w EXCEPT !.task = NewTask(payload)]
  IN IF w.ss.killSwitchEnabled
     THEN sendLog(sendStatus(called, payload.runId, "stopped", w.ss, "Kill switch enabled"),
                  payload.runId, 0, 0, "error", "Run blocked by kill switch")
     ELSE LET started == [called EXCEPT !.ss.status = "running",
                                        !.ss.runId = payload.runId,
                                        !.ss.currentRowIndex = payload.resumeFrom,
                                        !.ss.paused = FALSE,
                                        !.ss.stopped = FALSE]
              running == sendStatus(started, payload.runId, "running", started.task.state, "Run started")
          IN IF "rows" \in DOMAIN payload
             THEN RowLoop(running, FirstRow(payload))
             ELSE Return(sendStatus(running, payload.runId, "error", running.ss, "Run error"))

StepFailedGoesOn(w, errorMessage) ==
  [sendLog(w, RunId(w), w.task.rowIndex, w.task.stepIndex, "error", errorMessage)
     EXCEPT !.task.rowErrorMessage = errorMessage, !.task.rowFailed = TRUE, !.task.pc = "delay"]

\* lines 828-837: the catch block of the step loop, then applyDelay
StepFailed(w, errorMessage) ==
  LET failed == [sendLog(w, RunId(w), w.task.rowIndex, w.task.stepIndex, "error", errorMessage)
                   EXCEPT !.task.rowErrorMessage = errorMessage, !.task.rowFailed = TRUE]
  IN IF ~Settings(w).bestEffort
     THEN RowEnd(failed)
     ELSE [failed EXCEPT !.task.pc = "delay"]


(***************************************************************************)
(* The callbacks of the agent page.                                        *)
(***************************************************************************)
\* storageState.stepSignal = null
NoStepSignal == [runId |-> Null, rowIndex |-> -1, stepIndex |-> -1]

\* no runWorkflow invocation
NoTask == [pc |-> "none"]

AInit ==
  /\ storageState = [status |-> "idle", runId |-> Null, currentRowIndex |-> -1, paused |-> FALSE,
                     stopped |-> FALSE, killSwitchEnabled |-> FALSE, stepSignal |-> NoStepSignal]
  /\ loops = << >>
  /\ events = << >>
  /\ late = {}
  /\ pauseRequested = FALSE
  /\ killRequested = FALSE

\* the world runWorkflow invocation i resumes in
World(i) == [ss |-> storageState, task |-> loops[i], events |-> events, outbox |-> << >>]

\* the world a handleMessage call starts in
HandlerWorld == [ss |-> storageState, task |-> NoTask, events |-> events, outbox |-> << >>]

\* an invocation of runWorkflow goes on to its next await
Resume(i, w) ==
  /\ storageState' = w.ss
  /\ events' = w.events
  /\ loops' = [loops EXCEPT ![i] = w.task]
  /\ UNCHANGED <<killRequested, pauseRequested>>

\* a template is the sequence of its pieces: text, or a placeholder {{key}}
Text(s) == [lit |-> s]
Placeholder(key) == [key |-> key]

\* String(object[key])
StringOf(object, key) ==
  IF key \in DOMAIN object THEN object[key]
  ELSE IF key = "constructor" THEN "function Object() { [native code] }"
  ELSE "function " \o key \o "() { [native code] }"

\* line 603
MissingTemplateValue(key) == "Missing template value for \"" \o key \o "\""

RECURSIVE resolvePieces(_, _, _)
\* lines 596-605: value.replace(/{{(.*?)}}/g, ...), piece by piece from the left
resolvePieces(pieces, row, variables) ==
  IF pieces = << >>
  THEN [thrown |-> FALSE, s |-> ""]
  ELSE LET piece == Head(pieces)
           rest == resolvePieces(Tail(pieces), row, variables)
       IN IF "lit" \in DOMAIN piece
          THEN IF rest.thrown THEN rest ELSE [thrown |-> FALSE, s |-> piece.lit \o rest.s]
          ELSE IF KeyIn(piece.key, variables)
          THEN IF rest.thrown THEN rest ELSE [thrown |-> FALSE, s |-> StringOf(variables, piece.key) \o rest.s]
          ELSE IF ~KeyIn(piece.key, row)
          THEN [thrown |-> TRUE, message |-> MissingTemplateValue(piece.key)]
          ELSE IF rest.thrown THEN rest ELSE [thrown |-> FALSE, s |-> StringOf(row, piece.key) \o rest.s]

\* lines 592-606: resolveTemplate
resolveTemplate(value, row, variables) ==
  IF value = << >> THEN [thrown |-> FALSE, s |-> ""] ELSE resolvePieces(value, row, variables)

\* lines 869-870: the templates of the step are resolved before anything else
\* (a step of the model without a value has a selector that is plain text)
ResolveStep(step, row, variables) ==
  IF "value" \in DOMAIN step
  THEN resolveTemplate(step.value, row, variables)
  ELSE [thrown |-> FALSE, s |-> ""]

ExecutedAlsoWhenDry(w, step, resolved) ==
  IF step.type = "set_var"
  THEN [w EXCEPT !.task.variables = MapSet(@, step.selector, resolved.s)]
  ELSE w

\* lines 871-878 and 925-930: executeStep returns before the switch in a
\* dry run; otherwise a set_var step stores the resolved value under its
\* selector
Executed(w, step, resolved) ==
  IF step.type = "set_var" /\ ~w.task.payload.settings.dryRun
  THEN [w EXCEPT !.task.variables = MapSet(@, step.selector, resolved.s)]
  ELSE w

\* what the Action Executor can do with an attempt: return, throw, or still
\* be running when the timeout of withTimeout fires (awaited steps only, and
\* only when timeoutMs is not 0); the function an evaluate step builds from
\* its value can also throw an Error whose message is empty
Outcomes(step, settings) ==
  IF settings.dryRun \/ step.type = "set_var"
  THEN {"ok"}
  ELSE {"ok", "fail"} \cup
       (IF step.type \in {"wait_for_selector", "wait_time"} /\ TimeoutOf(step, settings) # 0
        THEN {"timeout"} ELSE {}) \cup
       (IF step.type = "evaluate" THEN {"failEmpty"} ELSE {})

\* line 823: `Step ${step.type} completed`
StepCompleted(step) == "Step " \o step.type \o " completed"

\* the message of the error retryWithBackoff throws: line 579 (timeout), line
\* 654 (click), line 687 (wait_for_selector), line 603 (the value of a
\* wait_time step names a missing key), lines 917-923 (the message of the
\* Error the code of an evaluate step throws)
ErrorMessage(step, outcome) ==
  IF outcome = "timeout" THEN "Step timeout exceeded"
  ELSE IF outcome = "failEmpty" THEN ""
  ELSE IF step.type = "evaluate" THEN "thrown by the evaluated code"
  ELSE IF step.type = "click" THEN "Unable to find element for selector"
  ELSE IF step.type = "wait_time" THEN "Missing template value"
  ELSE "Timeout waiting for selector"

PausedPolls == Cardinality({e \in DOMAIN events : events[e].type = "AGENT_STATUS" /\ events[e].status = "paused"})

\* await delay(500) of the pause loop returns
PauseWake(i) ==
  /\ loops[i].pc = "pauseWait"
  /\ storageState.paused => PausedPolls < MaxPausePolls
  /\ Resume(i, PauseLoop(World(i), loops[i].rowIndex))
  /\ UNCHANGED late

StepSignalSeenForAnyStep(i) ==
  /\ loops[i].pc = "stepWait"
  /\ storageState.stepSignal # NoStepSignal
  /\ storageState.stepSignal.runId = loops[i].payload.runId
  /\ storageState.stepSignal.rowIndex = loops[i].rowIndex
  /\ Resume(i, BeginAttempt([World(i) EXCEPT !.ss.stepSignal = NoStepSignal], loops[i].stepIndex, 0))
  /\ UNCHANGED late

\* lines 944-958: the setInterval callback of waitForStepSignal finds its signal
StepSignalSeen(i) ==
  /\ loops[i].pc = "stepWait"
  /\ storageState.stepSignal # NoStepSignal
  /\ storageState.stepSignal.runId = loops[i].payload.runId
  /\ storageState.stepSignal.rowIndex = loops[i].rowIndex
  /\ storageState.stepSignal.stepIndex = loops[i].stepIndex
  /\ Resume(i, BeginAttempt([World(i) EXCEPT !.ss.stepSignal = NoStepSignal], loops[i].stepIndex, 0))
  /\ UNCHANGED late

\* lines 575-590 and 819-837: the race of one attempt is decided
AttemptEnds(i, outcome) ==
  /\ loops[i].pc = "exec"
  /\ LET t == loops[i]
         step == t.payload.workflow.steps[t.stepIndex + 1]
         resolved == ResolveStep(step, t.payload.rows[t.rowIndex + 1], t.variables)
     IN /\ outcome \in IF resolved.thrown THEN {"fail"} ELSE Outcomes(step, t.payload.settings)
        /\ outcome = "timeout" => Cardinality(late) < MaxLate
        /\ late' = IF outcome = "timeout"
                   THEN late \cup {[runId |-> t.payload.runId, rowIndex |-> t.rowIndex, stepIndex |-> t.stepIndex,
                                     attempt |-> t.attempt, step |-> step]}
                   ELSE late
        /\ Resume(i, IF outcome = "ok"
                     THEN [sendLog(Executed(World(i), step, resolved), t.payload.runId, t.rowIndex,
                                   t.stepIndex, "info", StepCompleted(step))
                             EXCEPT !.task.pc = "delay"]
                     ELSE IF t.attempt >= RetriesOf(step)
                     THEN StepFailed(World(i), IF resolved.thrown THEN resolved.message
                                               ELSE ErrorMessage(step, outcome))
                     ELSE [World(i) EXCEPT !.task.pc = "backoff", !.task.backoff = Backoff(t.attempt)])

\* lines 584-587: await delay(backoff) returns and the next attempt starts
BackoffEnds(i) ==
  /\ loops[i].pc = "backoff"
  /\ Resume(i, BeginAttempt(World(i), loops[i].stepIndex, loops[i].attempt + 1))
  /\ UNCHANGED late

\* line 837: await applyDelay returns, the step loop goes on
DelayEnds(i) ==
  /\ loops[i].pc = "delay"
  /\ Resume(i, StepLoop(World(i), loops[i].stepIndex + 1))
  /\ UNCHANGED late

\* lines 821-824: executeStep of an attempt that lost the race ends at last.
\* The delay of a wait_time step (line 911) resolves, the rest of fn runs and
\* logs the completion; waitForSelector (lines 678-687) has reached its own
\* deadline by then and throws, which nothing observes.
LateAttemptEnds(z) ==
  /\ z \in late
  /\ late' = late \ {z}
  /\ events' = IF z.step.type = "wait_time"
                THEN Append(events, [type |-> "AGENT_LOG", runId |-> z.runId, rowIndex |-> z.rowIndex,
                                     stepIndex |-> z.stepIndex, level |-> "info",
                                     message |-> StepCompleted(z.step)])
                ELSE events
  /\ UNCHANGED <<storageState, loops, killRequested, pauseRequested>>

RunInProgressUnlessPaused(ss) == ss.status = "running" /\ ~ss.paused

\* storageState.status === "running"
RunInProgress(ss) == ss.status = "running"

KillSwitchOnNever(ss) == FALSE

\* line 987: if (storageState.killSwitchEnabled)
KillSwitchOn(ss) == ss.killSwitchEnabled

\* lines 960-1034: handleMessage, with runWorkflow up to its first await
Handle(w, message) ==
  LET p == message.payload
  IN CASE message.type = "CONTROL_HELLO" ->
            [sendAck(w, p.requestId, message.type, TRUE, "")
               EXCEPT !.outbox = Append(@, [type |-> "AGENT_HELLO", requestId |-> p.requestId])]
       [] message.type = "CONTROL_PING" ->
            [w EXCEPT !.outbox = Append(@, [type |-> "AGENT_PONG", requestId |-> p.requestId])]
       [] message.type = "CONTROL_START_RUN" ->
            IF KillSwitchOn(w.ss)
            THEN sendAck(sendLog(sendStatus(w, p.runId, "stopped", w.ss, "Kill switch enabled"),
                                 p.runId, 0, 0, "error", "Run blocked by kill switch"),
                         p.requestId, message.type, FALSE, "Kill switch enabled")
            ELSE IF RunInProgress(w.ss)
            THEN sendAck(w, p.requestId, message.type, FALSE, "Run already in progress")
            ELSE runWorkflow(sendAck(w, p.requestId, message.type, TRUE, ""), p)
       [] message.type = "CONTROL_PAUSE_RUN" ->
            sendAck([w EXCEPT !.ss.paused = TRUE], p.requestId, message.type, TRUE, "")
       [] message.type = "CONTROL_RESUME_RUN" ->
            sendAck([w EXCEPT !.ss.paused = FALSE], p.requestId, message.type, TRUE, "")
       [] message.type = "CONTROL_STOP_RUN" ->
            sendAck([w EXCEPT !.ss.stopped = TRUE], p.requestId, message.type, TRUE, "")
       [] message.type = "CONTROL_KILL_SWITCH" ->
            sendAck(IF p.enabled
                    THEN [w EXCEPT !.ss.killSwitchEnabled = TRUE, !.ss.stopped = TRUE, !.ss.paused = FALSE]
                    ELSE [w EXCEPT !.ss.killSwitchEnabled = FALSE],
                    p.requestId, message.type, TRUE, "")
       [] message.type = "CONTROL_STEP_NEXT" ->
            sendAck([w EXCEPT !.ss.stepSignal = [runId |-> p.runId, rowIndex |-> p.rowIndex,
                                                 stepIndex |-> p.stepIndex]],
                    p.requestId, message.type, TRUE, "")
       [] OTHER -> w

\* the listener of the agent: one control message is received and handled
handleMessage(message) ==
  LET w == Handle(HandlerWorld, message)
  IN /\ storageState' = w.ss
     /\ events' = w.events
     /\ loops' = IF w.task = NoTask THEN loops ELSE Append(loops, w.task)
     /\ pauseRequested' = CASE message.type = "CONTROL_PAUSE_RUN" -> RunInProgress(storageState)
                             [] message.type = "CONTROL_RESUME_RUN" -> FALSE
                             [] w.task # NoTask -> FALSE
                             [] OTHER -> pauseRequested
     /\ killRequested' = CASE w.task # NoTask -> FALSE
                            [] message.type = "CONTROL_KILL_SWITCH" /\ message.payload.enabled ->
                                 killRequested \/ \E i \in DOMAIN loops : loops[i].pc # "done"
                            [] OTHER -> killRequested
     /\ UNCHANGED late

\* the controller sends START_RUN while the kill switch is off, and starts
\* at most maxRuns runs; it sends STEP_NEXT for runs started with stepThrough
\* (the button of part_004 line 1184)
Deliverable(message, maxRuns) ==
  /\ message.type = "CONTROL_START_RUN" =>
       /\ ~storageState.killSwitchEnabled
       /\ RunInProgress(storageState) \/ Len(loops) < maxRuns
  /\ message.type = "CONTROL_STEP_NEXT" =>
       \E i \in DOMAIN loops : loops[i].payload.settings.stepThrough

\* SpecAgent: the agent page from its load through one accepted run, under
\* every control message; the Action Executor returns or throws before the
\* timeout of its step
ANext ==
  \/ \E m \in StartCommands \cup ControlCommands : Deliverable(m, 1) /\ handleMessage(m) /\ UNCHANGED <<tvars, cvars, mvars>>
  \/ \E i \in DOMAIN loops : PauseWake(i) /\ UNCHANGED <<tvars, cvars, mvars>>
  \/ \E i \in DOMAIN loops : StepSignalSeen(i) /\ UNCHANGED <<tvars, cvars, mvars>>
  \/ \E i \in DOMAIN loops, o \in {"ok", "fail"} : AttemptEnds(i, o) /\ UNCHANGED <<tvars, cvars, mvars>>
  \/ \E i \in DOMAIN loops : BackoffEnds(i) /\ UNCHANGED <<tvars, cvars, mvars>>
  \/ \E i \in DOMAIN loops : DelayEnds(i) /\ UNCHANGED <<tvars, cvars, mvars>>

\* the START_RUN commands of the jobs that run unattended
RestartCommands == {m \in StartCommands : ~m.payload.settings.stepThrough}

\* SpecRestart: START_RUN commands, repeated ones included, arrive during and
\* after a run; no other command is sent
RNext ==
  \/ \E m \in RestartCommands : Deliverable(m, MaxRuns) /\ handleMessage(m) /\ UNCHANGED <<tvars, cvars, mvars>>
  \/ \E i \in DOMAIN loops, o \in {"ok", "fail"} : AttemptEnds(i, o) /\ UNCHANGED <<tvars, cvars, mvars>>
  \/ \E i \in DOMAIN loops : BackoffEnds(i) /\ UNCHANGED <<tvars, cvars, mvars>>
  \/ \E i \in DOMAIN loops : DelayEnds(i) /\ UNCHANGED <<tvars, cvars, mvars>>

\* START_RUN commands received with the kill switch on, so far
BlockedStarts ==
  Cardinality({e \in DOMAIN events : events[e].type = "AGENT_LOG" /\ events[e].message = "Run blocked by kill switch"})

\* the controller starts at most one run, and sends at most MaxBlocked
\* START_RUN commands while the kill switch is on
DeliverableUnderKillSwitch(message) ==
  message.type = "CONTROL_START_RUN" =>
    IF storageState.killSwitchEnabled
    THEN BlockedStarts < MaxBlocked
    ELSE RunInProgress(storageState) \/ Len(loops) < 1

\* the commands of SpecKillSwitch
KillSwitchCommands ==
  RestartCommands \cup {KillSwitch("q1", e) : e \in BOOLEAN} \cup {RunCommand("CONTROL_STOP_RUN", "q1", "a")}

\* SpecKillSwitch: the kill switch is toggled and the run stopped while
\* START_RUN commands arrive, before, during and after a run
KNext ==
  \/ \E m \in KillSwitchCommands : DeliverableUnderKillSwitch(m) /\ handleMessage(m) /\ UNCHANGED <<tvars, cvars, mvars>>
  \/ \E i \in DOMAIN loops, o \in {"ok", "fail"} : AttemptEnds(i, o) /\ UNCHANGED <<tvars, cvars, mvars>>
  \/ \E i \in DOMAIN loops : BackoffEnds(i) /\ UNCHANGED <<tvars, cvars, mvars>>
  \/ \E i \in DOMAIN loops : DelayEnds(i) /\ UNCHANGED <<tvars, cvars, mvars>>

\* a CONTROL_START_RUN whose payload has no rows, and a CONTROL_PAUSE_RUN
\* whose payload has no runId
StartWithoutRows ==
  [type |-> "CONTROL_START_RUN",
   payload |-> [requestId |-> "q1", runId |-> "a", jobId |-> "job", workflow |-> Workflow,
                settings |-> RunSettings(FALSE, FALSE, FALSE), resumeFrom |-> 0]]

PauseWithoutRunId == [type |-> "CONTROL_PAUSE_RUN", payload |-> [requestId |-> "q1"]]

MalformedCommands == {StartWithoutRows, PauseWithoutRunId}

\* a broadcast of the controller's side that carries no type
Untyped == [payload |-> [requestId |-> "q1"]]

\* lines 534-539: handleIncoming of the agent, which calls its one listener
agentHandleIncoming(message) ==
  IF "type" \notin DOMAIN message
  THEN UNCHANGED avars
  ELSE handleMessage(message)

\* SpecMalformed: START_RUN and RESUME_RUN commands, malformed command
\* envelopes and untyped values arrive at the agent before, during and after
\* a run
MNext ==
  \/ \E m \in RestartCommands \cup MalformedCommands \cup {Untyped, RunCommand("CONTROL_RESUME_RUN", "q2", "a")} :
        /\ "type" \in DOMAIN m => Deliverable(m, 1)
        /\ agentHandleIncoming(m)
        /\ UNCHANGED <<tvars, cvars, mvars>>
  \/ \E i \in DOMAIN loops : PauseWake(i) /\ UNCHANGED <<tvars, cvars, mvars>>
  \/ \E i \in DOMAIN loops, o \in {"ok", "fail"} : AttemptEnds(i, o) /\ UNCHANGED <<tvars, cvars, mvars>>
  \/ \E i \in DOMAIN loops : BackoffEnds(i) /\ UNCHANGED <<tvars, cvars, mvars>>
  \/ \E i \in DOMAIN loops : DelayEnds(i) /\ UNCHANGED <<tvars, cvars, mvars>>

\* a workflow with templates: a variable is set from the row, then steps
\* reference it, a column no row has, and a name every object inherits
TemplateWorkflow ==
  [id |-> "wf", name |-> "wf", updatedAt |-> "t",
   steps |-> << [type |-> "set_var", selector |-> "greeting", value |-> << Text("hi "), Placeholder("name") >>],
                [type |-> "click", retries |-> MaxStepRetries,
                 value |-> << Placeholder("greeting"), Text(" in "), Placeholder("city") >>],
                [type |-> "click", value |-> << Placeholder("constructor") >>],
                [type |-> "click", value |-> << Placeholder("name") >>] >>]

\* rows parsed from a CSV with the one column name
TemplateRows == [i \in 1..MaxRows |-> [name |-> IF i = 1 THEN "ann" ELSE "bob"]]

TemplateCommands ==
  {[StartRun("q1", "a", RunSettings(bestEffort, dryRun, FALSE), 0)
      EXCEPT !.payload.workflow = TemplateWorkflow, !.payload.rows = TemplateRows] :
     bestEffort \in BOOLEAN, dryRun \in BOOLEAN}

\* SpecTemplate: one run of the workflow with templates
PNext ==
  \/ \E m \in TemplateCommands : Deliverable(m, 1) /\ handleMessage(m) /\ UNCHANGED <<tvars, cvars, mvars>>
  \/ \E i \in DOMAIN loops, o \in {"ok", "fail"} : AttemptEnds(i, o) /\ UNCHANGED <<tvars, cvars, mvars>>
  \/ \E i \in DOMAIN loops : BackoffEnds(i) /\ UNCHANGED <<tvars, cvars, mvars>>
  \/ \E i \in DOMAIN loops : DelayEnds(i) /\ UNCHANGED <<tvars, cvars, mvars>>

MaxBackoffRetries == 6 \* largest step.retries of the retried workflow

\* a click step with the given retries, or without retries for -1, then a
\* plain click step
RetriedWorkflow(retries) ==
  [id |-> "wr", name |-> "retried workflow",
   steps |-> << IF retries < 0 THEN BareStep("click") ELSE [type |-> "click", retries |-> retries],
                BareStep("click") >>]

RetriedCommands ==
  {[StartRun("q1", "a", RunSettings(bestEffort, FALSE, FALSE), 0)
      EXCEPT !.payload.workflow = RetriedWorkflow(retries), !.payload.rows = Rows(1)] :
     bestEffort \in BOOLEAN, retries \in -1..MaxBackoffRetries}

\* SpecRetry: one run of a one-row job whose first step has retries
YNext ==
  \/ \E m \in RetriedCommands : Deliverable(m, 1) /\ handleMessage(m) /\ UNCHANGED <<tvars, cvars, mvars>>
  \/ \E i \in DOMAIN loops, o \in {"ok", "fail"} : AttemptEnds(i, o) /\ UNCHANGED <<tvars, cvars, mvars>>
  \/ \E i \in DOMAIN loops : BackoffEnds(i) /\ UNCHANGED <<tvars, cvars, mvars>>
  \/ \E i \in DOMAIN loops : DelayEnds(i) /\ UNCHANGED <<tvars, cvars, mvars>>

\* a wait_time step with the given timeoutMs, or without timeoutMs for -1,
\* then a plain click step
WaitingWorkflow(timeoutMs) ==
  [id |-> "ww", name |-> "waiting workflow",
   steps |-> << IF timeoutMs < 0 THEN BareStep("wait_time") ELSE [type |-> "wait_time", timeoutMs |-> timeoutMs],
                BareStep("click") >>]

\* z.number().int().nonnegative(): 0 is allowed
StepTimeouts == {0, 250}

WaitingCommands ==
  {[StartRun("q1", "a", RunSettings(bestEffort, FALSE, FALSE), 0)
      EXCEPT !.payload.workflow = WaitingWorkflow(stepTimeoutMs), !.payload.rows = Rows(1),
             !.payload.settings.timeoutMs = timeoutMs] :
     bestEffort \in BOOLEAN, stepTimeoutMs \in {-1} \cup StepTimeouts, timeoutMs \in {0, 15000}}

\* the step types whose executor awaits something
Awaited == {"wait_for_selector", "wait_time"}

AttemptOf(i) == loops[i].payload.workflow.steps[loops[i].stepIndex + 1]

\* the executor of a step that awaits nothing returns or throws
SyncExecutorEnds ==
  \E i \in DOMAIN loops, o \in {"ok", "fail"} :
    /\ loops[i].pc = "exec" /\ AttemptOf(i).type \notin Awaited
    /\ AttemptEnds(i, o) /\ UNCHANGED <<tvars, cvars, mvars>>

\* the executor of a step that awaits returns or throws
AwaitedExecutorEnds ==
  \E i \in DOMAIN loops, o \in {"ok", "fail"} :
    /\ loops[i].pc = "exec" /\ AttemptOf(i).type \in Awaited
    /\ AttemptEnds(i, o) /\ UNCHANGED <<tvars, cvars, mvars>>

\* the timer of withTimeout fires first
TimeoutElapses ==
  \E i \in DOMAIN loops : AttemptEnds(i, "timeout") /\ UNCHANGED <<tvars, cvars, mvars>>

InterStepDelayEnds ==
  \E i \in DOMAIN loops : DelayEnds(i) /\ UNCHANGED <<tvars, cvars, mvars>>

\* SpecWaiting: one run of a one-row job whose first step waits.  Timers
\* fire and synchronous code runs to its end; nothing makes an awaited
\* executor call return.
WNext ==
  \/ \E m \in WaitingCommands : Deliverable(m, 1) /\ handleMessage(m) /\ UNCHANGED <<tvars, cvars, mvars>>
  \/ SyncExecutorEnds
  \/ AwaitedExecutorEnds
  \/ TimeoutElapses
  \/ InterStepDelayEnds
  \/ \E z \in late : LateAttemptEnds(z) /\ UNCHANGED <<tvars, cvars, mvars>>

WFairness ==
  /\ WF_vars(SyncExecutorEnds)
  /\ WF_vars(TimeoutElapses)
  /\ WF_vars(InterStepDelayEnds)

\* an evaluate step with code, then a plain click step
EvaluateWorkflow ==
  [id |-> "we", name |-> "evaluating workflow",
   steps |-> << [type |-> "evaluate", value |-> << Text("check(row)") >>, retries |-> MaxStepRetries],
                BareStep("click") >>]

EvaluateCommands ==
  {[StartRun("q1", "a", RunSettings(bestEffort, FALSE, FALSE), 0) EXCEPT !.payload.workflow = EvaluateWorkflow] :
     bestEffort \in BOOLEAN}

\* SpecEvaluate: one run of the evaluating workflow
ENext ==
  \/ \E m \in EvaluateCommands : Deliverable(m, 1) /\ handleMessage(m) /\ UNCHANGED <<tvars, cvars, mvars>>
  \/ \E i \in DOMAIN loops, o \in {"ok", "fail", "failEmpty"} : AttemptEnds(i, o) /\ UNCHANGED <<tvars, cvars, mvars>>
  \/ \E i \in DOMAIN loops : BackoffEnds(i) /\ UNCHANGED <<tvars, cvars, mvars>>
  \/ \E i \in DOMAIN loops : DelayEnds(i) /\ UNCHANGED <<tvars, cvars, mvars>>

\* SpecTimeout: one run of the timed workflow; a step attempt can return,
\* throw, or lose the race against the timeout of withTimeout and end later
XNext ==
  \/ \E m \in TimedCommands : Deliverable(m, 1) /\ handleMessage(m) /\ UNCHANGED <<tvars, cvars, mvars>>
  \/ \E i \in DOMAIN loops, o \in {"ok", "fail", "timeout"} : AttemptEnds(i, o) /\ UNCHANGED <<tvars, cvars, mvars>>
  \/ \E i \in DOMAIN loops : BackoffEnds(i) /\ UNCHANGED <<tvars, cvars, mvars>>
  \/ \E i \in DOMAIN loops : DelayEnds(i) /\ UNCHANGED <<tvars, cvars, mvars>>
  \/ \E z \in late : LateAttemptEnds(z) /\ UNCHANGED <<tvars, cvars, mvars>>

NotPicked == [value |-> << >>, reason |-> "none"]

NoScore == [a |-> << >>, b |-> << >>, value |-> [num |-> 0, den |-> 0]]

\* no post selection is going on
NoSelection ==
  /\ pool = << >>
  /\ recent = << >>
  /\ threshold = [num |-> 4, den |-> 5]
  /\ picked = NotPicked
  /\ score = NoScore

\* the controller has created no run
CInit ==
  /\ runs = << >>
  /\ reduced = 0

\* no value is under validation
MInit ==
  /\ candidate = JsNull
  /\ verdict = "none"
  /\ NoSelection

Init == TInit /\ AInit /\ CInit /\ MInit

SpecTransport == Init /\ [][TNext]_vars

\* the messages that arrive in SpecSettle: the ACK of the command, the ACK
\* of a command that is not pending, and a message that is not valid
SettleMessages ==
  {Ack("r1", TRUE), Ack("r2", TRUE),
   JsObj([type |-> JsStr("AGENT_ACK"), payload |-> JsObj([requestId |-> JsStr("r1")])])}

\* SpecSettle: commands with one requestId are sent with the transport, ACKs
\* arrive early, late, twice or for another requestId, and every armed timer
\* fires in the end
FNext ==
  \/ \E r \in RetriesArgs : sendCommand(Command("CONTROL_PAUSE_RUN", "r1", TRUE), 4000, r) /\ UNCHANGED <<avars, cvars, mvars>>
  \/ \E t \in timers : TimerFires(t) /\ UNCHANGED <<avars, cvars, mvars>>
  \/ \E m \in SettleMessages : handleIncoming(m) /\ UNCHANGED <<avars, cvars, mvars>>

\* window.setTimeout: an armed callback is called after its delay
TimersFire == WF_vars(\E t \in timers : TimerFires(t) /\ UNCHANGED <<avars, cvars, mvars>>)

SpecSettle == Init /\ [][FNext]_vars /\ TimersFire

SpecAgent == Init /\ [][ANext]_vars

SpecRestart == Init /\ [][RNext]_vars

SpecKillSwitch == Init /\ [][KNext]_vars

SpecTimeout == Init /\ [][XNext]_vars

SpecRetry == Init /\ [][YNext]_vars

SpecWaiting == Init /\ [][WNext]_vars /\ WFairness

SpecEvaluate == Init /\ [][ENext]_vars

SpecMalformed == Init /\ [][MNext]_vars

SpecTemplate == Init /\ [][PNext]_vars

(***************************************************************************)
(* The message validator on its own.                                       *)
(***************************************************************************)
\* the payload keys tried: two required ones and one no type requires
PayloadKeys == {"requestId", "runId", "extra"}

\* payload objects: every subset of PayloadKeys, each key holding null or a string
PayloadObjects == UNION {[K -> {JsNull, JsStr("v")}] : K \in SUBSET PayloadKeys}

\* the type property: absent, not a string, unknown, or a known type
TypeFields ==
  {<< >>} \cup {[type |-> t] : t \in {JsNull, JsStr("CONTROL_UNKNOWN"), JsStr("CONTROL_PAUSE_RUN"),
                                      JsStr("CONTROL_PING")}}

\* the payload property: absent, null, a string, or an object
PayloadFields ==
  {<< >>} \cup {[payload |-> v] : v \in {JsNull, JsStr("p")} \cup {JsObj(f) : f \in PayloadObjects}}

\* the values handed to validateMessage
ValidatorInputs ==
  {JsNull, JsStr("m")} \cup {JsObj(t @@ p) : t \in TypeFields, p \in PayloadFields}

\* a value arrives at the transport boundary
VInit ==
  /\ TInit /\ AInit /\ CInit /\ NoSelection
  /\ candidate \in ValidatorInputs
  /\ verdict = "none"

\* validateMessage(candidate) is called and returns
Validate ==
  /\ verdict = "none"
  /\ verdict' = IF validateMessage(candidate) THEN "true" ELSE "false"
  /\ UNCHANGED <<candidate, tvars, avars, cvars, svars>>

VNext == Validate

\* SpecValidate: validateMessage applied to one value of ValidatorInputs
SpecValidate == VInit /\ [][VNext]_vars

(***************************************************************************)
(* Post selection (src/shared/similarity.ts).  A text is the sequence of   *)
(* its characters; a number between 0 and 1 is a fraction num / den.        *)
(***************************************************************************)
MaxPool == 3           \* texts in the pool
MaxRecent == 2         \* texts in the history

UpperToLower == ("A" :> "a") @@ ("B" :> "b")

\* [a-z0-9]
LowerAlnum == {"a", "b", "c", "0"}

\* \s
White == {" "}

\* .toLowerCase()
toLowerCase(text) ==
  [i \in DOMAIN text |-> IF text[i] \in DOMAIN UpperToLower THEN UpperToLower[text[i]] ELSE text[i]]

\* .replace(/[^a-z0-9\s]/g, " ")
replaceOthers(text) ==
  [i \in DOMAIN text |-> IF text[i] \in LowerAlnum \cup White THEN text[i] ELSE " "]

RECURSIVE splitRuns(_, _, _, _)

\* .split(/\s+/): the pieces between the runs of white space, the empty
\* pieces at both ends included
splitRuns(text, word, words, inRun) ==
  IF text = << >> THEN Append(words, word)
  ELSE IF Head(text) \in White
  THEN splitRuns(Tail(text), << >>, IF inRun THEN words ELSE Append(words, word), TRUE)
  ELSE splitRuns(Tail(text), Append(word, Head(text)), words, FALSE)

\* lines 1-6: tokenize
tokenize(text) ==
  SelectSeq(splitRuns(replaceOthers(toLowerCase(text)), << >>, << >>, FALSE), LAMBDA word : word # << >>)

\* new Set(tokens)
SetOf(tokens) == {tokens[i] : i \in DOMAIN tokens}

\* the share of the first text's tokens found in the second
overlapOfFirst(a, b) ==
  LET tokensA == SetOf(tokenize(a))
      tokensB == SetOf(tokenize(b))
  IN IF tokensA = {} /\ tokensB = {}
     THEN [num |-> 1, den |-> 1]
     ELSE [num |-> Cardinality({token \in tokensA : token \in tokensB}),
           den |-> IF tokensA = {} THEN 1 ELSE Cardinality(tokensA)]

\* lines 8-17: jaccardSimilarity
jaccardSimilarity(a, b) ==
  LET tokensA == SetOf(tokenize(a))
      tokensB == SetOf(tokenize(b))
  IN IF tokensA = {} /\ tokensB = {}
     THEN [num |-> 1, den |-> 1]
     ELSE [num |-> Cardinality({token \in tokensA : token \in tokensB}),
           den |-> Cardinality(tokensA \cup tokensB)]

\* x >= y and x > y of two fractions
AtLeast(x, y) == x.num * y.den >= y.num * x.den

Above(x, y) == x.num * y.den > y.num * x.den

isTooSimilarAbove(candidateText, recentTexts, thresholdValue) ==
  \E i \in DOMAIN recentTexts : Above(jaccardSimilarity(candidateText, recentTexts[i]), thresholdValue)

\* lines 19-20: isTooSimilar
isTooSimilar(candidateText, recentTexts, thresholdValue) ==
  \E i \in DOMAIN recentTexts : AtLeast(jaccardSimilarity(candidateText, recentTexts[i]), thresholdValue)

Selected == "selected"

Fallback == "fallback: no unique candidates under similarity threshold"

fallbackToLast(poolTexts) ==
  [value |-> IF poolTexts = << >> THEN << >> ELSE poolTexts[Len(poolTexts)], reason |-> Fallback]

\* lines 36-39: pool[0] ?? ""
fallbackOf(poolTexts) ==
  [value |-> IF poolTexts = << >> THEN << >> ELSE poolTexts[1], reason |-> Fallback]

RECURSIVE pickFrom(_, _, _, _)

\* lines 27-35: the loop over the pool, from the candidates not yet seen
pickFrom(rest, poolTexts, recentTexts, thresholdValue) ==
  IF rest = << >> THEN fallbackOf(poolTexts)
  ELSE IF recentTexts # << >> /\ recentTexts[1] = Head(rest)
  THEN pickFrom(Tail(rest), poolTexts, recentTexts, thresholdValue)
  ELSE IF isTooSimilar(Head(rest), recentTexts, thresholdValue)
  THEN pickFrom(Tail(rest), poolTexts, recentTexts, thresholdValue)
  ELSE [value |-> Head(rest), reason |-> Selected]

\* lines 22-40: pickNextPost
pickNextPost(poolTexts, recentTexts, thresholdValue) ==
  pickFrom(poolTexts, poolTexts, recentTexts, thresholdValue)

\* "a b", "A,b", "a" and ""
Texts == {<<"a", " ", "b">>, <<"A", ",", "b">>, <<"a">>, << >>}

\* 0.5, the default 0.8, and 1.5
Thresholds == {[num |-> 1, den |-> 2], [num |-> 4, den |-> 5], [num |-> 3, den |-> 2]}

SeqsUpTo(set, n) == UNION {[1..k -> set] : k \in 0..n}

\* a pool, a history and a threshold are at hand
SInit ==
  /\ TInit /\ AInit /\ CInit
  /\ candidate = JsNull
  /\ verdict = "none"
  /\ pool \in SeqsUpTo(Texts, MaxPool)
  /\ recent \in SeqsUpTo(Texts, MaxRecent)
  /\ threshold \in Thresholds
  /\ picked = NotPicked
  /\ score = NoScore

\* pickNextPost(pool, recent, threshold) is called and returns
Pick ==
  /\ picked = NotPicked /\ score = NoScore
  /\ picked' = pickNextPost(pool, recent, threshold)
  /\ UNCHANGED <<pool, recent, threshold, score, candidate, verdict, tvars, avars, cvars>>

\* jaccardSimilarity(a, b) is called on a text of the pool and one of the
\* history, and returns
Compare(a, b) ==
  /\ picked = NotPicked /\ score = NoScore
  /\ score' = [a |-> a, b |-> b, value |-> jaccardSimilarity(a, b)]
  /\ UNCHANGED <<pool, recent, threshold, picked, candidate, verdict, tvars, avars, cvars>>

\* SpecSelect: one call of pickNextPost, or of jaccardSimilarity, on the
\* texts at hand
SelNext ==
  \/ Pick
  \/ \E i \in DOMAIN pool, j \in DOMAIN recent : Compare(pool[i], recent[j])

SpecSelect == SInit /\ [][SelNext]_vars

(***************************************************************************)
(* The controller's control-plane signals, over its transport.             *)
(***************************************************************************)
MaxToggles == 1        \* kill-switch toggles per behaviour

\* sendCommand(message, timeoutMs = 4000, retries = 2)
DefaultTimeoutMs == 4000
DefaultRetries == 2

\* the signals of part_004 lines 343-403
ButtonSignals == {"CONTROL_PAUSE_RUN", "CONTROL_RESUME_RUN", "CONTROL_STOP_RUN", "CONTROL_STEP_NEXT"}

\* the message a button handler builds
SignalMessage(type, requestId) ==
  JsObj([type |-> JsStr(type),
         payload |-> JsObj(IF type = "CONTROL_STEP_NEXT"
                           THEN [requestId |-> JsStr(requestId), runId |-> JsStr("run"),
                                 rowIndex |-> JsStr("0"), stepIndex |-> JsStr("0")]
                           ELSE [requestId |-> JsStr(requestId), runId |-> JsStr("run")])])

KillSwitchMessage(requestId, enabled) ==
  JsObj([type |-> JsStr("CONTROL_KILL_SWITCH"),
         payload |-> JsObj([requestId |-> JsStr(requestId), enabled |-> JsBool(enabled)])])

\* the kill-switch messages sent so far
KillSwitchSends == {i \in DOMAIN sent : sent[i].message.f.type.s = "CONTROL_KILL_SWITCH"}

\* state.killSwitchEnabled of the controller: off at first, then what the
\* last kill-switch message said
killSwitchEnabled ==
  IF KillSwitchSends = {}
  THEN FALSE
  ELSE LET last == CHOOSE i \in KillSwitchSends : \A j \in KillSwitchSends : j <= i
       IN sent[last].message.f.payload.f.enabled.b

\* ACPTransport.send: the message is posted, and nothing is remembered
send(sentSoFar, message) == Append(sentSoFar, [message |-> message, for |-> 0])

\* lines 343-403: a button handler of the run detail calls sendCommand
handleSignalButton(type, requestId) ==
  sendCommand(SignalMessage(type, requestId), DefaultTimeoutMs, DefaultRetries)

\* lines 428-437 then 179-187: handleKillSwitchToggle sends the new value,
\* and the effect on state.killSwitchEnabled sends it again
handleKillSwitchToggle ==
  /\ Cardinality(KillSwitchSends) < 2 * MaxToggles
  /\ LET next == ~killSwitchEnabled
     IN sent' = send(send(sent, KillSwitchMessage("r1", next)), KillSwitchMessage("r2", next))
  /\ UNCHANGED <<pending, timers, futures, delivered, dropped>>

\* SpecSignals: the user presses the buttons of the run detail and toggles
\* the kill switch; acknowledgments arrive or not
SNext ==
  \/ \E type \in ButtonSignals, r \in RequestIds :
        handleSignalButton(type, r) /\ UNCHANGED <<avars, cvars, mvars>>
  \/ handleKillSwitchToggle /\ UNCHANGED <<avars, cvars, mvars>>
  \/ \E t \in timers : TimerFires(t) /\ UNCHANGED <<avars, cvars, mvars>>
  \/ \E r \in RequestIds : handleIncoming(Ack(r, TRUE)) /\ UNCHANGED <<avars, cvars, mvars>>

SpecSignals == Init /\ [][SNext]_vars

(***************************************************************************)
(* The controller (App): its Run records, the buttons of the run detail    *)
(* and the reducer of the agent's events.  A command the controller sends  *)
(* is received by the agent before anything else happens.                  *)
(***************************************************************************)
\* part_002 lines 132-146: createRun
createRun(runId) ==
  [id |-> runId, status |-> "idle", currentRowIndex |-> 0, currentStepIndex |-> 0,
   lastCompletedRow |-> -1, successCount |-> 0, failureCount |-> 0,
   logs |-> << >>, rowResults |-> << >>]

\* prev.runs.map((item) => item.id === run.id ? { ...item, status } : item)
SetRunStatus(rs, runId, status) ==
  [r \in DOMAIN rs |-> IF r = runId THEN [rs[r] EXCEPT !.status = status] ELSE rs[r]]

\* lines 300-341: handleStartRun, the kill switch of the controller being off
handleStartRun(runId) ==
  LET run == createRun(runId)
  IN /\ handleMessage(StartRun("q1", runId, RunSettings(FALSE, FALSE, FALSE), run.lastCompletedRow + 1))
     /\ runs' = MapSet(runs, runId, [run EXCEPT !.status = "running"])
     /\ UNCHANGED reduced

\* lines 343-357: handlePauseRun
handlePauseRun(runId) ==
  /\ handleMessage(RunCommand("CONTROL_PAUSE_RUN", "q1", runId))
  /\ runs' = SetRunStatus(runs, runId, "paused")
  /\ UNCHANGED reduced

\* lines 359-373: handleResumeRun
handleResumeRun(runId) ==
  /\ handleMessage(RunCommand("CONTROL_RESUME_RUN", "q1", runId))
  /\ runs' = SetRunStatus(runs, runId, "running")
  /\ UNCHANGED reduced

\* lines 375-389: handleStopRun
handleStopRun(runId) ==
  /\ handleMessage(RunCommand("CONTROL_STOP_RUN", "q1", runId))
  /\ runs' = SetRunStatus(runs, runId, "stopped")
  /\ UNCHANGED reduced

\* lines 885-905: updateRunStatus
updateRunStatus(rs, message) ==
  [r \in DOMAIN rs |->
     IF r # message.runId
     THEN rs[r]
     ELSE LET rowChanged == rs[r].currentRowIndex # message.currentRowIndex
          IN [rs[r] EXCEPT !.status = message.status,
                           !.currentRowIndex = message.currentRowIndex,
                           !.currentStepIndex = IF rowChanged THEN 0 ELSE @,
                           !.successCount = message.successCount,
                           !.failureCount = message.failureCount]]

\* lines 907-933: appendRunLog
appendRunLog(rs, message) ==
  [r \in DOMAIN rs |->
     IF r # message.runId
     THEN rs[r]
     ELSE [rs[r] EXCEPT !.logs = << [rowIndex |-> message.rowIndex, stepIndex |-> message.stepIndex,
                                     level |-> message.level, message |-> message.message] >> \o @,
                        !.currentStepIndex = message.stepIndex + 1]]

\* lines 935-960: appendRowResult
appendRowResult(rs, message) ==
  [r \in DOMAIN rs |->
     IF r # message.runId
     THEN rs[r]
     ELSE [rs[r] EXCEPT !.rowResults = << [rowIndex |-> message.rowIndex, status |-> message.status,
                                           error |-> message.error] >> \o @,
                        !.lastCompletedRow = IF @ > message.rowIndex THEN @ ELSE message.rowIndex]]

\* lines 829-883: the reducer handleMessage of the controller
reduce(rs, message) ==
  CASE message.type = "AGENT_STATUS" -> updateRunStatus(rs, message)
    [] message.type = "AGENT_LOG" -> appendRunLog(rs, message)
    [] message.type = "AGENT_ROW_RESULT" -> appendRowResult(rs, message)
    [] OTHER -> rs

\* lines 829-883: handleMessage of the controller, on the agent's next event
reduceMessage ==
  /\ reduced < Len(events)
  /\ runs' = reduce(runs, events[reduced + 1])
  /\ reduced' = reduced + 1
  /\ UNCHANGED avars

MaxDuplicates == 1     \* events the controller receives a second time

\* the AGENT_LOG and AGENT_ROW_RESULT broadcasts the controller has reduced
ReducedEntries ==
  Cardinality({e \in 1..reduced : events[e].type \in {"AGENT_LOG", "AGENT_ROW_RESULT"}})

StoredEntries(rs) ==
  IF DOMAIN rs = {} THEN 0
  ELSE LET r == CHOOSE r \in DOMAIN rs : TRUE IN Len(rs[r].logs) + Len(rs[r].rowResults)

\* the agent broadcasts on BroadcastChannel, window.postMessage and
\* localStorage, and the transport listens to all three: the message reduced
\* last arrives once more
reduceAgain ==
  /\ reduced > 0
  /\ events[reduced].type \in {"AGENT_LOG", "AGENT_ROW_RESULT"}
  /\ StoredEntries(runs) - ReducedEntries < MaxDuplicates
  /\ runs' = reduce(runs, events[reduced])
  /\ UNCHANGED <<reduced, avars>>

\* line 1172: the run detail shows Pause for a running run, Resume otherwise
PauseShown(run) == run.status = "running"

\* SpecController: the user starts one run from the controller and presses
\* the buttons of its run detail while the agent runs it and the controller
\* reduces the agent's events in order
CNext ==
  \/ \E runId \in RunIds : runs = << >> /\ handleStartRun(runId) /\ UNCHANGED <<tvars, mvars>>
  \/ \E runId \in DOMAIN runs : PauseShown(runs[runId]) /\ handlePauseRun(runId) /\ UNCHANGED <<tvars, mvars>>
  \/ \E runId \in DOMAIN runs : ~PauseShown(runs[runId]) /\ handleResumeRun(runId) /\ UNCHANGED <<tvars, mvars>>
  \/ \E runId \in DOMAIN runs : handleStopRun(runId) /\ UNCHANGED <<tvars, mvars>>
  \/ reduceMessage /\ UNCHANGED <<tvars, mvars>>
  \/ \E i \in DOMAIN loops : PauseWake(i) /\ UNCHANGED <<tvars, cvars, mvars>>
  \/ \E i \in DOMAIN loops, o \in {"ok", "fail"} : AttemptEnds(i, o) /\ UNCHANGED <<tvars, cvars, mvars>>
  \/ \E i \in DOMAIN loops : BackoffEnds(i) /\ UNCHANGED <<tvars, cvars, mvars>>
  \/ \E i \in DOMAIN loops : DelayEnds(i) /\ UNCHANGED <<tvars, cvars, mvars>>

\* SpecDuplicate: the controller starts one run and reduces the agent's
\* broadcasts, some of them twice
DNext ==
  \/ \E runId \in RunIds : runs = << >> /\ handleStartRun(runId) /\ UNCHANGED <<tvars, mvars>>
  \/ reduceMessage /\ UNCHANGED <<tvars, mvars>>
  \/ reduceAgain /\ UNCHANGED <<tvars, mvars>>
  \/ \E i \in DOMAIN loops, o \in {"ok", "fail"} : AttemptEnds(i, o) /\ UNCHANGED <<tvars, cvars, mvars>>
  \/ \E i \in DOMAIN loops : BackoffEnds(i) /\ UNCHANGED <<tvars, cvars, mvars>>
  \/ \E i \in DOMAIN loops : DelayEnds(i) /\ UNCHANGED <<tvars, cvars, mvars>>

SpecDuplicate == Init /\ [][DNext]_vars

SpecController == Init /\ [][CNext]_vars

\* SpecUnacknowledged: the user starts the runs of two jobs from the
\* controller, the second one possibly while the agent still executes the
\* first, and presses the buttons of the run details
UNext ==
  \/ \E runId \in RunIds : runId \notin DOMAIN runs /\ handleStartRun(runId) /\ UNCHANGED <<tvars, mvars>>
  \/ \E runId \in DOMAIN runs : PauseShown(runs[runId]) /\ handlePauseRun(runId) /\ UNCHANGED <<tvars, mvars>>
  \/ \E runId \in DOMAIN runs : ~PauseShown(runs[runId]) /\ handleResumeRun(runId) /\ UNCHANGED <<tvars, mvars>>
  \/ \E runId \in DOMAIN runs : handleStopRun(runId) /\ UNCHANGED <<tvars, mvars>>
  \/ reduceMessage /\ UNCHANGED <<tvars, mvars>>
  \/ \E i \in DOMAIN loops : PauseWake(i) /\ UNCHANGED <<tvars, cvars, mvars>>
  \/ \E i \in DOMAIN loops : AttemptEnds(i, "ok") /\ UNCHANGED <<tvars, cvars, mvars>>
  \/ \E i \in DOMAIN loops : DelayEnds(i) /\ UNCHANGED <<tvars, cvars, mvars>>

SpecUnacknowledged == Init /\ [][UNext]_vars

(***************************************************************************)
(* Properties of the command transport.                                    *)
(***************************************************************************)
\* a sendCommand call happened in this step; its promise is the newest one
CallMade == Len(futures') = Len(futures) + 1
NewestFuture == futures'[Len(futures')]

RequestIdOf(fut) == extractRequestId(futures[fut].message)

\* number of broadcasts made for the pending entry of promise fut
SentFor(fut) == Cardinality({i \in DOMAIN sent : sent[i].for = fut})

\* a valid ACK carrying requestId has been received by this transport
AckSeen(requestId) ==
  \E i \in DOMAIN delivered :
    /\ delivered[i].f.type.s = "AGENT_ACK"
    /\ delivered[i].f.payload.f.requestId = requestId

\* C1 as stated: every sendCommand call made while a command is pending is
\* rejected with the conflict error, broadcasts nothing and leaves the
\* pending entry and its timer alone.
C1_EveryCallConflicts ==
  [][(CallMade /\ DOMAIN pending # {}) =>
       /\ NewestFuture.state = "rejected"
       /\ NewestFuture.value = JsStr(ErrConflict)
       /\ UNCHANGED <<pending, sent, timers>>]_vars

\* C1 amended: at most one command is pending at any time; a sendCommand call
\* made while a command is pending is rejected at once, with the conflict
\* error if its message carries a non-empty requestId and with the
\* missing-requestId error otherwise; it broadcasts nothing and leaves the
\* pending entry (message, retriesLeft) and its timer unchanged.
C1_SingleFlight ==
  /\ [](Cardinality(DOMAIN pending) <= 1)
  /\ [][(CallMade /\ DOMAIN pending # {}) =>
          /\ NewestFuture.state = "rejected"
          /\ NewestFuture.value = JsStr(IF Falsy(extractRequestId(NewestFuture.message))
                                        THEN ErrNoRequestId ELSE ErrConflict)
          /\ UNCHANGED <<pending, sent, timers>>]_vars

C1_ConflictRejected ==
  /\ DOMAIN pending # {}
  /\ \E fut \in DOMAIN futures :
       /\ futures[fut].value = JsStr(ErrConflict)
       /\ RequestIdOf(fut).s \notin DOMAIN pending

\* C2: as long as no ACK carrying a command's requestId has been received,
\* the command has been broadcast once per elapsed timer period (one timer
\* armed at a time), every broadcast is the message of the call, and the
\* promise is rejected with the no-acknowledgment error exactly when
\* retries+1 broadcasts have been made, the pending entry being cleared then.
C2_RetriesThenReject ==
  \A fut \in DOMAIN futures :
    (~Falsy(RequestIdOf(fut)) /\ ~AckSeen(RequestIdOf(fut))) =>
      LET requestId == RequestIdOf(fut).s
          held == requestId \in DOMAIN pending /\ pending[requestId].fut = fut
      IN /\ \A i \in DOMAIN sent : sent[i].for = fut => sent[i].message = futures[fut].message
         /\ futures[fut].state = "pending" =>
              /\ held
              /\ SentFor(fut) = futures[fut].retries - pending[requestId].retriesLeft + 1
              /\ SentFor(fut) <= futures[fut].retries + 1
              /\ Cardinality({t \in timers : t.requestId = requestId}) = 1
         /\ futures[fut].value = JsStr(ErrNoAck) =>
              /\ SentFor(fut) = futures[fut].retries + 1
              /\ futures[fut].settled = 1
              /\ ~held
         /\ futures[fut].state = "rejected" => futures[fut].value \in {JsStr(ErrNoAck), JsStr(ErrConflict)}

C2_RejectedAfterRetries ==
  \E fut \in DOMAIN futures :
    /\ futures[fut].value = JsStr(ErrNoAck)
    /\ futures[fut].retries = MaxRetriesArg
    /\ SentFor(fut) >= 2
    /\ ~AckSeen(RequestIdOf(fut))

\* C3: the timer of a command whose promise was resolved by its ACK is
\* cancelled: when it would fire it re-sends nothing and rejects nothing,
\* whatever command is pending by then.
C3_ResolvedTimerIsInert ==
  [][\A t \in timers :
       (futures[t.owner].state = "resolved" /\ TimerFires(t)) =>
         UNCHANGED <<pending, sent, futures>>]_vars

(***************************************************************************)
(* Properties of the agent.                                                *)
(***************************************************************************)
IsStatus(event, runId, status) ==
  event.type = "AGENT_STATUS" /\ event.runId = runId /\ event.status = status

IsRowResult(event, runId) == event.type = "AGENT_ROW_RESULT" /\ event.runId = runId

\* the ROW_RESULT events of run runId with the given status
RowResults(runId, status) ==
  {e \in DOMAIN events : IsRowResult(events[e], runId) /\ events[e].status = status}

\* the events broadcast by the step being taken
NewEvents == SubSeq(events', Len(events) + 1, Len(events'))

\* no step of the run has failed for good: no error LOG was emitted for it
NoStepFailed(runId) ==
  \A e \in DOMAIN events :
    (events[e].type = "AGENT_LOG" /\ events[e].runId = runId) => events[e].level # "error"

\* the acknowledgments the agent broadcasts when it receives message now
AcksFor(message) ==
  LET out == Handle(HandlerWorld, message).outbox
  IN [k \in {j \in DOMAIN out : out[j].type = "AGENT_ACK"} |-> out[k]]

\* C4: whatever state the agent is in, for each command it receives
\* (START_RUN, PAUSE_RUN, RESUME_RUN, STOP_RUN, KILL_SWITCH, STEP_NEXT, HELLO,
\* PING) it broadcasts exactly one AGENT_ACK, and that ACK carries the
\* command's requestId and the command's type.
C4_OneAckPerCommand ==
  \A m \in StartCommands \cup ControlCommands :
    /\ Cardinality(DOMAIN AcksFor(m)) = 1
    /\ \A k \in DOMAIN AcksFor(m) :
         /\ AcksFor(m)[k].requestId = m.payload.requestId
         /\ AcksFor(m)[k].commandType = m.type

\* C5: a START_RUN delivered again (same requestId, same payload) starts no
\* second processing of the job: no row index of its run gets a second
\* ROW_RESULT, whether the repeat arrives during the run or after its end.
C5_DuplicateStartRunsOnce ==
  \A i, j \in DOMAIN loops :
    (i < j /\ loops[i].payload = loops[j].payload) =>
      \A e, f \in DOMAIN events :
        (e < f /\ IsRowResult(events[e], loops[i].payload.runId)
               /\ IsRowResult(events[f], loops[i].payload.runId)) =>
          events[e].rowIndex # events[f].rowIndex

\* the run of loops[i] is over, had bestEffort = false, none of its steps
\* failed and no stop or kill switch reached it
AllSuccessRunEnded(i) ==
  /\ loops[i].pc = "done"
  /\ ~loops[i].payload.settings.bestEffort
  /\ NoStepFailed(loops[i].payload.runId)
  /\ ~storageState.stopped

\* the status events of an all-success run: running first, complete last
\* with the given successCount and failureCount 0, never stopped or error
AllSuccessStatuses(i, successCount) ==
  LET runId == loops[i].payload.runId
      last == events[Len(events)]
  IN /\ IsStatus(events[1], runId, "running")
     /\ \A e \in DOMAIN events : ~IsStatus(events[e], runId, "stopped") /\ ~IsStatus(events[e], runId, "error")
     /\ IsStatus(last, runId, "complete")
     /\ last.successCount = successCount
     /\ last.failureCount = 0

\* a paused status is broadcast only while the paused flag set by PAUSE_RUN is up
PausedOnlyOnCommand ==
  [][\A k \in DOMAIN NewEvents :
       (NewEvents[k].type = "AGENT_STATUS" /\ NewEvents[k].status = "paused") => storageState.paused]_vars

\* C6 as stated: a run with bestEffort = false in which every step of every
\* row succeeds emits running, ends with complete (paused, stopped or error
\* only if commanded), and its final STATUS carries successCount = rows.length
\* and failureCount = 0.
C6_AllSuccessCountsEveryRow ==
  \A i \in DOMAIN loops :
    (AllSuccessRunEnded(i) /\ loops[i].payload.resumeFrom < Len(loops[i].payload.rows)) =>
      AllSuccessStatuses(i, Len(loops[i].payload.rows))

\* C6 amended: as above, but the final STATUS carries successCount =
\* rows.length - resumeFrom, the number of rows this run instance processed
\* (the counters start at 0 in every run), and failureCount = 0.
C6_AllSuccessCountsProcessedRows ==
  /\ [](\A i \in DOMAIN loops :
          AllSuccessRunEnded(i) =>
            AllSuccessStatuses(i, Len(loops[i].payload.rows) - loops[i].payload.resumeFrom))
  /\ PausedOnlyOnCommand

C6_ResumedRunCompleted ==
  \E i \in DOMAIN loops :
    /\ AllSuccessRunEnded(i)
    /\ loops[i].payload.resumeFrom = 1
    /\ events[Len(events)].status = "complete"
    /\ events[Len(events)].successCount = MaxRows - 1

\* C7: in a run with bestEffort = false the ROW_RESULT failed of the first
\* failing row is followed at once by status error carrying that row as
\* currentRowIndex, and by nothing else: the run is over, no step of a later
\* row executes, no later ROW_RESULT is emitted, currentRowIndex stays.
C7_FirstFailureEndsRun ==
  \A i \in DOMAIN loops :
    ~loops[i].payload.settings.bestEffort =>
      \A e \in RowResults(loops[i].payload.runId, "failed") :
        /\ e + 1 = Len(events)
        /\ IsStatus(events[e + 1], loops[i].payload.runId, "error")
        /\ events[e + 1].currentRowIndex = events[e].rowIndex
        /\ events[e + 1].failureCount = 1
        /\ loops[i].pc = "done"
        /\ loops[i].rowIndex = events[e].rowIndex
        /\ loops[i].state.currentRowIndex = events[e].rowIndex

C7_FailedBeforeLastRow ==
  \E i \in DOMAIN loops :
    /\ ~loops[i].payload.settings.bestEffort
    /\ \E e \in RowResults(loops[i].payload.runId, "failed") :
         /\ events[e].rowIndex < Len(loops[i].payload.rows) - 1
         /\ IsStatus(events[Len(events)], loops[i].payload.runId, "error")

\* C8: a run with bestEffort = true never emits status error; when it is over
\* and no stop or kill switch reached it, every row from resumeFrom to
\* rows.length - 1 has exactly one ROW_RESULT and the last event is status
\* complete whose failureCount is the number of failed rows and whose
\* successCount is the number of successful ones.
C8_BestEffortProcessesEveryRow ==
  \A i \in DOMAIN loops :
    LET t == loops[i]
        runId == t.payload.runId
    IN t.payload.settings.bestEffort =>
         /\ \A e \in DOMAIN events : ~IsStatus(events[e], runId, "error")
         /\ (t.pc = "done" /\ ~storageState.stopped) =>
              /\ IsStatus(events[Len(events)], runId, "complete")
              /\ events[Len(events)].failureCount = Cardinality(RowResults(runId, "failed"))
              /\ events[Len(events)].successCount = Cardinality(RowResults(runId, "success"))
              /\ \A k \in 0..(Len(t.payload.rows) - 1) :
                   Cardinality({e \in DOMAIN events : IsRowResult(events[e], runId) /\ events[e].rowIndex = k})
                     = IF k >= t.payload.resumeFrom THEN 1 ELSE 0

C8_CompletedWithFailures ==
  \E i \in DOMAIN loops :
    /\ loops[i].payload.settings.bestEffort
    /\ loops[i].pc = "done"
    /\ ~storageState.stopped
    /\ loops[i].payload.resumeFrom = 0
    /\ IsStatus(events[Len(events)], loops[i].payload.runId, "complete")
    /\ events[Len(events)].failureCount > 0
    /\ RowResults(loops[i].payload.runId, "success") # {}

\* C9: from the moment a run in progress receives PAUSE_RUN until it
\* receives RESUME_RUN, its currentRowIndex does not advance and the steps it
\* executes are those of the row it was in; suspended in the pause wait it
\* broadcasts nothing but status paused.
C9_PauseHoldsRunUntilResume ==
  [][\A i \in DOMAIN loops :
       LET t == loops[i]
           u == loops'[i]
       IN (pauseRequested /\ t.pc # "done") =>
            /\ u.state.currentRowIndex = t.state.currentRowIndex
            /\ u.pc \in {"stepWait", "exec", "backoff", "delay"} => u.rowIndex = t.state.currentRowIndex
            /\ t.pc = "pauseWait" =>
                 \A k \in DOMAIN NewEvents :
                   NewEvents[k].type = "AGENT_STATUS" /\ NewEvents[k].status \in {"paused", "stopped"}]_vars

\* C10: once STOP_RUN has set the stopped flag while the run is suspended in
\* the pause wait, the run enters no further row: it stays in the wait or
\* ends, and currentRowIndex does not change.
C10_StopHaltsPausedRun ==
  [][\A i \in DOMAIN loops :
       (loops[i].pc = "pauseWait" /\ storageState.stopped) =>
         /\ loops'[i].pc \in {"pauseWait", "done"}
         /\ loops'[i].state.currentRowIndex = loops[i].state.currentRowIndex]_vars

\* the run of loops[i] is in the steps of a row
InRow(t) == t.pc \in {"stepWait", "exec", "backoff", "delay"}

\* C11: CONTROL_KILL_SWITCH with enabled = true sets the stopped flag and
\* clears the paused flag, and a run that has received it starts no further
\* row: its currentRowIndex does not change any more and the steps it
\* executes are those of the row it was in.
C11_KillSwitchStopsRun ==
  [][/\ (storageState'.killSwitchEnabled /\ ~storageState.killSwitchEnabled) =>
          storageState'.stopped /\ ~storageState'.paused
     /\ \A i \in DOMAIN loops :
          (killRequested /\ loops[i].pc # "done") =>
            /\ loops'[i].state.currentRowIndex = loops[i].state.currentRowIndex
            /\ InRow(loops'[i]) => loops'[i].rowIndex = loops[i].state.currentRowIndex]_vars

\* C12: once the stopped flag has been set (by CONTROL_STOP_RUN or by a
\* kill-switch enable) while the run is in the steps of a row, the run starts
\* no further step of that row: neither the next step after the delay of the
\* current one, nor the step it is waiting for a step signal to start.
C12_StopObservedBetweenSteps ==
  [][\A i \in DOMAIN loops :
       (storageState.stopped /\ loops[i].pc \in {"delay", "stepWait"}) =>
         ~(loops'[i].pc = "exec" /\ loops'[i].rowIndex = loops[i].rowIndex)]_vars

\* C13: a START_RUN received while the kill switch is on is rejected: the
\* agent broadcasts status stopped and an error LOG for the run id of the
\* command and one AGENT_ACK with ok = false, nothing else; no runWorkflow
\* invocation starts (no step, no ROW_RESULT) and storageState (status, runId,
\* currentRowIndex, paused, stopped, killSwitchEnabled) is unchanged.
C13_StartBlockedByKillSwitch ==
  [][\A m \in StartCommands :
       (storageState.killSwitchEnabled /\ handleMessage(m)) =>
         /\ storageState' = storageState
         /\ loops' = loops
         /\ Len(NewEvents) = 2
         /\ IsStatus(NewEvents[1], m.payload.runId, "stopped")
         /\ NewEvents[2].type = "AGENT_LOG"
         /\ NewEvents[2].runId = m.payload.runId
         /\ NewEvents[2].level = "error"
         /\ Len(Handle(HandlerWorld, m).outbox) = 1
         /\ DOMAIN AcksFor(m) = {1}
         /\ AcksFor(m)[1].requestId = m.payload.requestId
         /\ AcksFor(m)[1].commandType = m.type
         /\ ~AcksFor(m)[1].ok]_vars

C13_StartWasBlocked ==
  /\ BlockedStarts > 0
  /\ \E i \in DOMAIN loops : loops[i].pc # "done"
  /\ storageState.killSwitchEnabled

\* C14: when every run has ended (status stopped, error or complete was
\* emitted and runWorkflow returned) and the kill switch is off, a START_RUN
\* received next, for the same or another run id, is acknowledged with
\* ok = true and starts a run at the resumeFrom of the command.
C14_StartAcceptedAfterRunEnded ==
  (/\ loops # << >>
   /\ \A i \in DOMAIN loops : loops[i].pc = "done"
   /\ ~storageState.killSwitchEnabled) =>
    \A m \in RestartCommands :
      /\ \A k \in DOMAIN AcksFor(m) : AcksFor(m)[k].ok
      /\ Handle(HandlerWorld, m).task # NoTask
      /\ Handle(HandlerWorld, m).ss.currentRowIndex = m.payload.resumeFrom

\* the events of run runId that name a row: LOG and ROW_RESULT
RowEvents(runId) ==
  {e \in DOMAIN events : events[e].runId = runId /\ events[e].type \in {"AGENT_LOG", "AGENT_ROW_RESULT"}}

\* C15: a run started with resumeFrom = k never has its row cursor below k:
\* it executes no step of, and emits no LOG, ROW_RESULT or STATUS for, a row
\* index below k, and the first row it enters and the first row it reports
\* is row k.
C15_NoRowBelowResumeFrom ==
  \A i \in DOMAIN loops :
    LET t == loops[i]
        runId == t.payload.runId
        k == t.payload.resumeFrom
        entered == {e \in DOMAIN events : IsStatus(events[e], runId, "running")
                                            /\ events[e].message = "Processing row"}
    IN /\ t.rowIndex >= k
       /\ t.state.currentRowIndex >= k
       /\ \A e \in RowEvents(runId) : events[e].rowIndex >= k
       /\ \A e \in DOMAIN events :
            (events[e].type = "AGENT_STATUS" /\ events[e].runId = runId) => events[e].currentRowIndex >= k
       /\ \A e \in entered : (\A f \in entered : e <= f) => events[e].currentRowIndex = k
       /\ \A e \in RowEvents(runId) : (\A f \in RowEvents(runId) : e <= f) => events[e].rowIndex = k

C15_ResumedRunReportedRow ==
  \E i \in DOMAIN loops :
    /\ loops[i].payload.resumeFrom = 1
    /\ loops[i].pc = "done"
    /\ RowResults(loops[i].payload.runId, "success") # {}

\* the rows run runId has entered: those it announced with status running
\* "Processing row"
EnteredRows(runId) ==
  {events[e].currentRowIndex : e \in {f \in DOMAIN events : IsStatus(events[f], runId, "running")
                                                              /\ events[f].message = "Processing row"}}

\* C16: within one run no row index has two ROW_RESULT events and a row that
\* was not entered has none; every entered row has its ROW_RESULT as soon as
\* the run has left the steps of that row; the ROW_RESULT of a row comes
\* after every LOG of a step of that row and before every LOG and ROW_RESULT
\* of a following row.
C16_OneRowResultPerEnteredRow ==
  \A i \in DOMAIN loops :
    LET t == loops[i]
        runId == t.payload.runId
        reports(k) == {e \in DOMAIN events : IsRowResult(events[e], runId) /\ events[e].rowIndex = k}
    IN \A k \in 0..(Len(t.payload.rows) - 1) :
         /\ Cardinality(reports(k)) <= 1
         /\ k \notin EnteredRows(runId) => reports(k) = {}
         /\ (k \in EnteredRows(runId) /\ ~(InRow(t) /\ t.rowIndex = k)) => reports(k) # {}
         /\ \A e \in reports(k) :
              \A f \in RowEvents(runId) :
                /\ (f < e) => events[f].rowIndex <= k
                /\ (f > e) => events[f].rowIndex > k

\* the ROW_RESULT events with the given status that the run reporting in
\* events[e] had emitted before events[e]: those since its "Run started"
RowResultsBefore(e, status) ==
  LET runId == events[e].runId
      started == {f \in 1..e : IsStatus(events[f], runId, "running") /\ events[f].message = "Run started"}
  IN {f \in 1..(e - 1) : /\ IsRowResult(events[f], runId)
                         /\ events[f].status = status
                         /\ \A g \in started : g < f}

\* C17: every STATUS event of an accepted run carries, as successCount and
\* failureCount, the numbers of success and of failed ROW_RESULT events the
\* run has emitted before it (so their sum is the number of ROW_RESULT
\* events so far)
C17_StatusCountsRowResults ==
  \A e \in DOMAIN events :
    events[e].type = "AGENT_STATUS" =>
      /\ "successCount" \in DOMAIN events[e]
      /\ events[e].successCount = Cardinality(RowResultsBefore(e, "success"))
      /\ events[e].failureCount = Cardinality(RowResultsBefore(e, "failed"))

\* a run has reported a status after a failed row and a successful row
C17_StatusAfterBothResults ==
  \E e \in DOMAIN events :
    /\ events[e].type = "AGENT_STATUS"
    /\ RowResultsBefore(e, "success") # {}
    /\ RowResultsBefore(e, "failed") # {}

\* the AGENT_STATUS events broadcast so far, in order
Statuses == SelectSeq(events, LAMBDA event : event.type = "AGENT_STATUS")

TerminalStatuses == {"stopped", "error", "complete"}

\* the status at position i opens a run: it is the first one, or the
\* "Run started" of a later run
OpensRun(s, i) == i = 1 \/ s[i].message = "Run started"

\* the statuses of each run start with running and hold at most one
\* terminal status, the last of the run
OneTerminalStatusLast(s) ==
  \A i \in DOMAIN s :
    /\ OpensRun(s, i) => s[i].status = "running"
    /\ (i > 1 /\ OpensRun(s, i)) => s[i - 1].status \in TerminalStatuses
    /\ (s[i].status \in TerminalStatuses /\ i < Len(s)) => OpensRun(s, i + 1)

\* C18 as stated: the STATUS events of a run start with running, paused
\* occurs only between running statuses, and at most one terminal status is
\* emitted, as the last STATUS event of the run
C18_PausedOnlyBetweenRunning ==
  /\ OneTerminalStatusLast(Statuses)
  /\ \A i \in DOMAIN Statuses :
       Statuses[i].status = "paused" =>
         /\ i > 1 /\ Statuses[i - 1].status \in {"running", "paused"}
         /\ i < Len(Statuses) => Statuses[i + 1].status \in {"running", "paused"}

\* C18, amended: the STATUS events of a run start with running, at most one
\* terminal status is emitted, as the last STATUS event of the run, and a
\* paused status follows a running or paused one and is followed by paused,
\* by running, or by the terminal stopped
C18_StatusStateMachine ==
  /\ OneTerminalStatusLast(Statuses)
  /\ \A i \in DOMAIN Statuses :
       Statuses[i].status = "paused" =>
         /\ i > 1 /\ Statuses[i - 1].status \in {"running", "paused"}
         /\ i < Len(Statuses) => Statuses[i + 1].status \in {"running", "paused", "stopped"}

\* a paused run was ended by the kill switch: paused, then stopped
C18_PausedThenStopped ==
  \E i \in DOMAIN Statuses :
    /\ i < Len(Statuses)
    /\ Statuses[i].status = "paused"
    /\ Statuses[i + 1].status = "stopped"

(***************************************************************************)
(* Properties of the message validator.                                    *)
(***************************************************************************)
\* the message is a non-null object whose type is a string of the known-type
\* table and whose payload is a non-null object holding every key the table
\* requires for that type
WellFormed(message) ==
  /\ message.tag = "object"
  /\ "type" \in DOMAIN message.f
  /\ message.f.type.tag = "string"
  /\ message.f.type.s \in DOMAIN schemaTypes
  /\ "payload" \in DOMAIN message.f
  /\ message.f.payload.tag = "object"
  /\ schemaTypes[message.f.type.s] \subseteq DOMAIN message.f.payload.f

C19_TerminalRunStatusIsFinal ==
  [][\A r \in DOMAIN runs :
       runs[r].status \in TerminalStatuses => runs'[r].status = runs[r].status]_vars

(***************************************************************************)
(* Properties of the transport's incoming side.                            *)
(***************************************************************************)
\* C21: a value that fails validation is dropped by the transport: the
\* listeners are not invoked and no pending command is settled; every
\* message that passes validation, acknowledgments included, is handed to
\* the listeners (a value the transport handled is in delivered or in
\* dropped, and no well-formed one is in dropped)
C21_OnlyValidMessagesDelivered ==
  /\ [](/\ \A i \in DOMAIN delivered : WellFormed(delivered[i])
        /\ \A message \in dropped : ~WellFormed(message))
  /\ [][dropped' # dropped => UNCHANGED <<pending, timers, sent, futures, delivered>>]_vars

\* with a command pending, an acknowledgment lacking required keys arrived
\* and was dropped, and a well-formed message was handed on
C21_BadAckDroppedGoodDelivered ==
  /\ JsObj([type |-> JsStr("AGENT_ACK"), payload |-> JsObj([requestId |-> JsStr("r1")])]) \in dropped
  /\ "r1" \in DOMAIN pending
  /\ Len(delivered) = 1

(***************************************************************************)
(* Properties of the agent's incoming side.                                *)
(***************************************************************************)
\* C22: a command envelope of a known type whose payload lacks a required
\* key is dropped by the agent: it broadcasts no acknowledgment and no
\* event, starts no run and changes nothing in storageState
C22_MalformedCommandDropped ==
  [][\A message \in MalformedCommands :
       agentHandleIncoming(message) =>
         /\ Handle(HandlerWorld, message).outbox = << >>
         /\ UNCHANGED <<storageState, loops, events>>]_vars

(***************************************************************************)
(* Properties of templates.                                                *)
(***************************************************************************)
\* the keys the templates of the step reference
KeysOf(step) ==
  IF "value" \in DOMAIN step
  THEN {step.value[j].key : j \in {j \in DOMAIN step.value : "key" \in DOMAIN step.value[j]}}
  ELSE {}

\* the keys among them that neither the variables of the run nor the row hold
MissingKeys(step, row, variables) ==
  {key \in KeysOf(step) : key \notin DOMAIN variables /\ key \notin DOMAIN row}

\* an attempt of a step ends: the step never completes when it references
\* one of the keys of missing(step, row, variables); once its attempts are
\* used up an error LOG naming such a key follows and the row is reported
\* failed (at once unless bestEffort, when the next step is gone on to)
MissingKeyFailsStep(missing(_, _, _)) ==
  \A i \in DOMAIN loops :
    (loops[i].pc = "exec" /\ loops'[i] # loops[i]) =>
      LET t == loops[i]
          step == t.payload.workflow.steps[t.stepIndex + 1]
          keys == missing(step, t.payload.rows[t.rowIndex + 1], t.variables)
      IN keys # {} =>
           \/ /\ loops'[i].pc = "backoff"
              /\ t.attempt < RetriesOf(step)
              /\ NewEvents = << >>
           \/ /\ t.attempt = RetriesOf(step)
              /\ NewEvents # << >>
              /\ NewEvents[1].type = "AGENT_LOG"
              /\ NewEvents[1].level = "error"
              /\ NewEvents[1].rowIndex = t.rowIndex /\ NewEvents[1].stepIndex = t.stepIndex
              /\ NewEvents[1].message \in {MissingTemplateValue(key) : key \in keys}
              /\ IF t.payload.settings.bestEffort
                 THEN /\ Len(NewEvents) = 1
                      /\ loops'[i].pc = "delay" /\ loops'[i].stepIndex = t.stepIndex
                 ELSE /\ NewEvents[2].type = "AGENT_ROW_RESULT"
                      /\ NewEvents[2].rowIndex = t.rowIndex
                      /\ NewEvents[2].status = "failed"

\* the ROW_RESULT of a row is failed when an error LOG was emitted for the row
FailedRowsReportedFailed ==
  \A e \in DOMAIN events, f \in DOMAIN events :
    (/\ events[e].type = "AGENT_LOG" /\ events[e].level = "error"
     /\ events[f].type = "AGENT_ROW_RESULT" /\ events[f].rowIndex = events[e].rowIndex) =>
      events[f].status = "failed"

\* C23: a placeholder whose key is in neither the variables of the run nor
\* the row fails the step that references it, with an error LOG naming the
\* key and a failed ROW_RESULT; under bestEffort the run goes on to the next
\* step of the row
C23_MissingKeyFailsStep ==
  /\ []FailedRowsReportedFailed
  /\ [][MissingKeyFailsStep(MissingKeys)]_vars

\* the keys neither mapping holds and Object.prototype does not hold either
MissingAndNotInherited(step, row, variables) ==
  MissingKeys(step, row, variables) \ ObjectPrototypeKeys

\* C23 for the keys that are no property names of Object.prototype
C23_MissingOwnKeyFailsStep ==
  /\ []FailedRowsReportedFailed
  /\ [][MissingKeyFailsStep(MissingAndNotInherited)]_vars

\* under bestEffort a row had a step failed for its missing key and a later
\* step completed
C23_LaterStepCompleted ==
  \E e \in DOMAIN events, f \in DOMAIN events :
    /\ e < f
    /\ events[e].type = "AGENT_LOG" /\ events[e].message = MissingTemplateValue("city")
    /\ events[f].type = "AGENT_LOG" /\ events[f].level = "info"
    /\ events[f].rowIndex = events[e].rowIndex /\ events[f].stepIndex = 3

(***************************************************************************)
(* Properties of the controller's signals.                                 *)
(***************************************************************************)
ControlSignals == ButtonSignals \cup {"CONTROL_KILL_SWITCH"}

\* C24: every control-plane signal the controller posts (pause, resume,
\* stop, kill switch, step advance) is the message of a sendCommand call,
\* whose promise is rejected when no acknowledgment arrives
C24_SignalsAreAcknowledgedCommands ==
  \A i \in DOMAIN sent :
    sent[i].message.f.type.s \in ControlSignals =>
      /\ sent[i].for \in DOMAIN futures
      /\ futures[sent[i].for].message = sent[i].message

(***************************************************************************)
(* Properties of step attempts.                                            *)
(***************************************************************************)
\* the calls of executeStep that have started and not yet ended
ExecutionsInProgress == Cardinality({i \in DOMAIN loops : loops[i].pc = "exec"}) + Cardinality(late)

\* C25: at no time are two step executions in progress; an attempt, or the
\* next step, starts only once the previous call of the Action Executor has
\* ended, also when that call lost the race against the timeout
C25_OneExecutionAtATime == ExecutionsInProgress <= 1

(***************************************************************************)
(* Properties of the post selection.                                       *)
(***************************************************************************)
Below(x, y) == x.num * y.den < y.num * x.den

SameNumber(x, y) == x.num * y.den = y.num * x.den

\* the candidate at place k of the pool is not the newest history entry and
\* is less similar than the threshold to every history entry
Eligible(k) ==
  /\ ~(recent # << >> /\ pool[k] = recent[1])
  /\ \A j \in DOMAIN recent : Below(jaccardSimilarity(pool[k], recent[j]), threshold)

EligiblePlaces == {k \in DOMAIN pool : Eligible(k)}

\* C26: a result tagged "selected" is the first candidate, in pool order,
\* that differs from history[0] and whose similarity to every history entry
\* is strictly below the threshold; a similarity equal to the threshold
\* excludes the candidate
C26_SelectedIsFirstEligible ==
  picked.reason = Selected =>
    /\ EligiblePlaces # {}
    /\ LET first == CHOOSE k \in EligiblePlaces : \A other \in EligiblePlaces : k <= other
       IN picked.value = pool[first]

\* pool ["a b", "a", ""] with history ["a b"] and threshold 0.5: the first
\* is history[0], the second is exactly as similar as the threshold, the
\* third is selected
C26_SkipsEqualAndThreshold ==
  /\ pool = <<(<<"a", " ", "b">>), (<<"a">>), (<< >>)>>
  /\ recent = <<(<<"a", " ", "b">>)>>
  /\ threshold = [num |-> 1, den |-> 2]
  /\ jaccardSimilarity(pool[2], recent[1]) = [num |-> 1, den |-> 2]
  /\ picked = [value |-> << >>, reason |-> Selected]

\* C27: the result is the fallback exactly when every pool entry is
\* excluded, the fallback is pool[0], or "" for an empty pool, and
\* history[0] is returned verbatim only as a fallback
C27_FallbackOnlyWhenAllExcluded ==
  picked # NotPicked =>
    /\ picked.reason \in {Selected, Fallback}
    /\ picked.reason = Fallback <=> EligiblePlaces = {}
    /\ picked.reason = Fallback => picked.value = IF pool = << >> THEN << >> ELSE pool[1]
    /\ (recent # << >> /\ picked.value = recent[1]) => EligiblePlaces = {}

\* pool ["A,b", "a b"] with history ["a b"]: both are excluded and the
\* fallback is pool[0]
C27_FallbackIsFirstOfPool ==
  /\ pool = <<(<<"A", ",", "b">>), (<<"a", " ", "b">>)>>
  /\ recent = <<(<<"a", " ", "b">>)>>
  /\ threshold = [num |-> 4, den |-> 5]
  /\ picked = [value |-> <<"A", ",", "b">>, reason |-> Fallback]

\* C28: jaccardSimilarity(a, b) is jaccardSimilarity(b, a), also when a text
\* has no token
C28_SimilarityIsSymmetric ==
  score # NoScore => SameNumber(score.value, jaccardSimilarity(score.b, score.a))

\* "a b" against "": 0 of 2 tokens
C28_ComparedWithEmpty ==
  /\ score.a = <<"a", " ", "b">>
  /\ score.b = << >>
  /\ score.value = [num |-> 0, den |-> 2]

(***************************************************************************)
(* Properties of the retrying of a step.                                   *)
(***************************************************************************)
\* the step the loop is at
StepAt(t) == t.payload.workflow.steps[t.stepIndex + 1]

\* how many broadcasts of the given kind there are for the loop's step
StepLogs(broadcasts, t, level) ==
  Cardinality({e \in DOMAIN broadcasts :
                 /\ broadcasts[e].type = "AGENT_LOG"
                 /\ broadcasts[e].level = level
                 /\ broadcasts[e].rowIndex = t.rowIndex
                 /\ broadcasts[e].stepIndex = t.stepIndex})

CappedDoubling(k) == IF 500 * (2 ^ k) < 8000 THEN 500 * (2 ^ k) ELSE 8000

\* attempts are numbered from 0, a step has at most retries + 1 of them,
\* and the wait before retry number k is min(500 * 2^k, 8000) ms
AttemptsWithinRetries ==
  \A i \in DOMAIN loops :
    /\ loops[i].pc \in {"exec", "backoff"} =>
         loops[i].attempt \in 0..(IF "retries" \in DOMAIN StepAt(loops[i]) THEN StepAt(loops[i]).retries ELSE 0)
    /\ loops[i].pc = "backoff" =>
         /\ loops[i].backoff = CappedDoubling(loops[i].attempt)
         /\ loops[i].backoff <= 8000

\* what an attempt's end leads to
RetryStep(i) ==
  LET t == loops[i]
      u == loops'[i]
      retries == IF "retries" \in DOMAIN StepAt(t) THEN StepAt(t).retries ELSE 0
      failed == StepLogs(events', t, "error") > StepLogs(events, t, "error")
      completed == StepLogs(events', t, "info") > StepLogs(events, t, "info")
  IN /\ (t.pc = "exec" /\ u.pc # "exec") =>
          \/ completed /\ ~failed /\ u.pc # "backoff"
          \/ failed /\ ~completed /\ t.attempt = retries /\ u.rowFailed /\ u.pc # "backoff"
          \/ ~failed /\ ~completed /\ t.attempt < retries /\ u.pc = "backoff"
     /\ (t.pc = "backoff" /\ u.pc # "backoff") =>
          /\ u.pc = "exec" /\ u.attempt = t.attempt + 1
          /\ u.rowIndex = t.rowIndex /\ u.stepIndex = t.stepIndex
     /\ (t.pc \notin {"exec", "backoff"} /\ u.pc = "exec") =>
          /\ u.attempt = 0
          /\ t.pc = "delay" => <<u.rowIndex, u.stepIndex>> # <<t.rowIndex, t.stepIndex>>
     /\ (t.pc = "exec" /\ u.pc = "backoff" /\ t.attempt > 0) => u.backoff >= t.backoff

\* C29: a step that keeps failing is attempted retries + 1 times (once
\* when step.retries is absent) and then fails its row; an attempt that
\* succeeds ends the retrying; the wait before retry number k is
\* min(500 * 2^k, 8000) ms, never less than the wait before it and never
\* more than 8000 ms
C29_RetriesPlusOneAttempts ==
  /\ []AttemptsWithinRetries
  /\ [][\A i \in DOMAIN loops : RetryStep(i)]_vars

\* the step with retries = 6 has failed its seventh attempt, after a sixth
\* wait of min(16000, 8000) ms
C29_SeventhAttemptFailed ==
  /\ Len(loops) = 1
  /\ loops[1].payload.workflow.steps[1] = [type |-> "click", retries |-> 6]
  /\ loops[1].stepIndex = 0
  /\ loops[1].attempt = 6
  /\ loops[1].backoff = 8000
  /\ loops[1].rowFailed

(***************************************************************************)
(* Termination of a run.                                                   *)
(***************************************************************************)
\* the agent has broadcast a terminal status
RunEnded ==
  \E e \in DOMAIN events : events[e].type = "AGENT_STATUS" /\ events[e].status \in TerminalStatuses

RowLogs(runId, k) ==
  {e \in DOMAIN events :
     events[e].type = "AGENT_LOG" /\ events[e].runId = runId /\ events[e].rowIndex = k}

Latest(places) == CHOOSE e \in places : \A f \in places : f <= e

\* what the ROW_RESULT at place e says of row k of the run of task t
RowResultTellsSteps(t, k, e, said(_)) ==
  LET runId == t.payload.runId
      before == {f \in RowLogs(runId, k) : f < e}
      errors == {f \in before : events[f].level = "error"}
  IN /\ RowLogs(runId, k) = before
     /\ events[e].status = "failed" <=> errors # {}
     /\ errors # {} => events[e].error = said(events[Latest(errors)].message)
     /\ (errors # {} /\ ~t.payload.settings.bestEffort) =>
          /\ Cardinality(errors) = 1
          /\ \A f \in before : events[f].stepIndex <= events[Latest(errors)].stepIndex
     /\ t.payload.settings.bestEffort =>
          {events[f].stepIndex : f \in before} = 0..(Len(t.payload.workflow.steps) - 1)

RowFailureFollowsBestEffort(said(_)) ==
  \A i \in DOMAIN loops :
    LET t == loops[i]
    IN /\ (t.rowFailed /\ ~t.payload.settings.bestEffort) => t.pc = "done"
       /\ \A k \in 0..(Len(t.payload.rows) - 1) :
            LET reports == {e \in DOMAIN events :
                              IsRowResult(events[e], t.payload.runId) /\ events[e].rowIndex = k}
            IN /\ Cardinality(reports) <= 1
               /\ \A e \in reports : RowResultTellsSteps(t, k, e, said)

AsThrown(message) == message

\* rowErrorMessage || "Row failed during execution"
OrRowFailed(message) == IF message = "" THEN "Row failed during execution" ELSE message

\* C31 as stated: without bestEffort, a step that fails after its retries
\* ends the row: no later step of the row starts, and the row's one
\* ROW_RESULT is failed with that step's message; with bestEffort every step
\* of the row is attempted and the ROW_RESULT carries the message of the
\* last failed step
C31_RowErrorIsStepMessage == RowFailureFollowsBestEffort(AsThrown)

\* C31 amended: the same, but the ROW_RESULT of a row whose last failure
\* has an empty message carries "Row failed during execution"
C31_RowFailureFollowsBestEffort == RowFailureFollowsBestEffort(OrRowFailed)

\* a bestEffort run whose rows 0 and 1 failed: in row 0 both steps failed
\* and the ROW_RESULT has the message of the second; in row 1 only the first
\* step failed, with an empty message
C31_LastFailureWins ==
  /\ Len(loops) = 1 /\ loops[1].payload.settings.bestEffort
  /\ \E e \in DOMAIN events :
       /\ events[e].type = "AGENT_ROW_RESULT" /\ events[e].rowIndex = 0
       /\ events[e].error = "Unable to find element for selector"
       /\ \E f \in 1..(e - 1) :
            /\ events[f].type = "AGENT_LOG" /\ events[f].level = "error"
            /\ events[f].rowIndex = 0 /\ events[f].stepIndex = 0
            /\ events[f].message = "thrown by the evaluated code"
  /\ \E e \in DOMAIN events :
       /\ events[e].type = "AGENT_ROW_RESULT" /\ events[e].rowIndex = 1
       /\ events[e].error = "Row failed during execution"
       /\ \E f \in 1..(e - 1) :
            /\ events[f].type = "AGENT_LOG" /\ events[f].level = "error"
            /\ events[f].rowIndex = 1 /\ events[f].message = ""

(***************************************************************************)
(* Properties of a dry run.                                                *)
(***************************************************************************)
\* no step of a dry run has assigned a variable
DryRunAssignsNothing ==
  \A i \in DOMAIN loops : loops[i].payload.settings.dryRun => loops[i].variables = << >>

\* an attempt of a dry run whose templates resolve ends with the info log of
\* its step, and the loop goes on to the next step
DryStepSucceeds(i) ==
  LET t == loops[i]
      step == t.payload.workflow.steps[t.stepIndex + 1]
  IN (/\ t.pc = "exec" /\ t.payload.settings.dryRun
      /\ loops'[i] # t
      /\ ~ResolveStep(step, t.payload.rows[t.rowIndex + 1], t.variables).thrown) =>
       /\ events' = Append(events, [type |-> "AGENT_LOG", runId |-> t.payload.runId,
                                    rowIndex |-> t.rowIndex, stepIndex |-> t.stepIndex,
                                    level |-> "info", message |-> "Step " \o step.type \o " completed"])
       /\ loops'[i].pc = "delay"
       /\ loops'[i].rowFailed = t.rowFailed

\* C32: in a dry run the Action Executor is not invoked for any step (no
\* variable is assigned), and every step whose placeholders resolve counts as
\* succeeded and is logged at level info
C32_DryRunExecutesNothing ==
  /\ []DryRunAssignsNothing
  /\ [][\A i \in DOMAIN loops : DryStepSucceeds(i)]_vars

\* the set_var step of a dry run is logged as completed, and no variable is
\* assigned
C32_DrySetVarCompleted ==
  /\ Len(loops) = 1 /\ loops[1].payload.settings.dryRun
  /\ loops[1].variables = << >>
  /\ \E e \in DOMAIN events :
       /\ events[e].type = "AGENT_LOG" /\ events[e].level = "info"
       /\ events[e].stepIndex = 0 /\ events[e].message = "Step set_var completed"

(***************************************************************************)
(* Properties of a step-through run.                                       *)
(***************************************************************************)
TripleOf(t) == [runId |-> t.payload.runId, rowIndex |-> t.rowIndex, stepIndex |-> t.stepIndex]

\* a step of a step-through run starts only from its wait, on the stored
\* signal naming its triple, and the start clears the signal
StartsOnItsSignal(i) ==
  LET t == loops[i]
      u == loops'[i]
  IN /\ (t.payload.settings.stepThrough /\ u.pc = "exec" /\ u.attempt = 0 /\ t.pc # "exec") =>
          /\ t.pc = "stepWait"
          /\ storageState.stepSignal = TripleOf(t)
          /\ TripleOf(u) = TripleOf(t)
          /\ storageState'.stepSignal = NoStepSignal
     /\ (t.pc = "stepWait" /\ storageState.stepSignal # TripleOf(t)) => u.pc = "stepWait"

\* a signal is stored only by a CONTROL_STEP_NEXT, and names its triple
SignalFromStepNext ==
  (storageState'.stepSignal # storageState.stepSignal /\ storageState'.stepSignal # NoStepSignal) =>
    \E m \in ControlCommands :
      /\ m.type = "CONTROL_STEP_NEXT"
      /\ handleMessage(m)
      /\ storageState'.stepSignal = [runId |-> m.payload.runId, rowIndex |-> m.payload.rowIndex,
                                     stepIndex |-> m.payload.stepIndex]

\* C33: in a step-through run, step (rowIndex, stepIndex) of run runId does
\* not start before a STEP_NEXT naming that runId, rowIndex and stepIndex has
\* been received; a STEP_NEXT naming another triple does not release it; the
\* stored signal is cleared when it releases a step, so that one STEP_NEXT
\* releases one step at most
C33_StepWaitsForItsSignal ==
  [][SignalFromStepNext /\ \A i \in DOMAIN loops : StartsOnItsSignal(i)]_vars

\* step 1 of the step-through run has been released, and its signal cleared
C33_SecondStepReleased ==
  /\ Len(loops) = 1 /\ loops[1].payload.settings.stepThrough
  /\ loops[1].pc = "exec" /\ loops[1].stepIndex = 1 /\ loops[1].attempt = 0
  /\ storageState.stepSignal = NoStepSignal

(***************************************************************************)
(* Properties of the logs of a step.                                       *)
(***************************************************************************)
\* the AGENT_LOG broadcasts of step (k, j) of a run
OutcomeLogs(runId, k, j) ==
  {e \in RowLogs(runId, k) : events[e].stepIndex = j}

\* the step (k, j) of the run of task t has ended
StepOver(t, k, j) ==
  \/ t.rowIndex > k
  \/ t.rowIndex = k /\ t.stepIndex > j
  \/ t.rowIndex = k /\ t.stepIndex = j /\ t.pc \in {"delay", "done"}

\* C34: a step the run executes has exactly one outcome LOG: at level info
\* when it succeeded, at level error with the failure message when it failed;
\* a failed step, also one failed by its timeout, has no info log
C34_OneOutcomeLogPerStep ==
  \A i \in DOMAIN loops :
    LET t == loops[i]
    IN \A k \in t.payload.resumeFrom..(Len(t.payload.rows) - 1) :
         \A j \in 0..(Len(t.payload.workflow.steps) - 1) :
           LET logs == OutcomeLogs(t.payload.runId, k, j)
           IN /\ Cardinality(logs) <= 1
              /\ (logs # {} /\ t.pc # "done") => StepOver(t, k, j)

(***************************************************************************)
(* Properties of the controller under duplicate delivery.                  *)
(***************************************************************************)
\* rowResults has one entry per rowIndex at most
OneResultPerRow ==
  \A r \in DOMAIN runs :
    \A x, y \in DOMAIN runs[r].rowResults :
      runs[r].rowResults[x].rowIndex = runs[r].rowResults[y].rowIndex => x = y

\* C35: an AGENT_ROW_RESULT or AGENT_LOG the controller receives a second
\* time leaves the Run record as it was after the first time: rowResults has
\* one entry per rowIndex at most, and lastCompletedRow stays the largest
\* rowIndex received
C35_DuplicateEventIsIdempotent ==
  /\ []OneResultPerRow
  /\ [][reduceAgain => runs' = runs]_vars

(***************************************************************************)
(* Properties of the end of a run.                                         *)
(***************************************************************************)
\* C36: once the agent has broadcast a terminal AGENT_STATUS (stopped, error
\* or complete) for a run, it broadcasts no further AGENT_LOG,
\* AGENT_ROW_RESULT or AGENT_STATUS for that run, not even from an attempt
\* that timed out and ends later
C36_NothingAfterTerminalStatus ==
  \A e \in DOMAIN events :
    (events[e].type = "AGENT_STATUS" /\ events[e].status \in TerminalStatuses) =>
      \A f \in DOMAIN events : f > e => events[f].runId # events[e].runId

(***************************************************************************)
(* Properties of the single run loop.                                      *)
(***************************************************************************)
\* the runWorkflow invocations that have not returned
ActiveLoops == {i \in DOMAIN loops : loops[i].pc # "done"}

\* what handleMessage does with a CONTROL_START_RUN while a run is active
StartRejected(m) ==
  LET w == Handle(HandlerWorld, m)
  IN /\ w.task = NoTask
     /\ w.ss = storageState
     /\ Len(w.outbox) = 1
     /\ w.outbox[1].type = "AGENT_ACK"
     /\ w.outbox[1].requestId = m.payload.requestId
     /\ w.outbox[1].ok = FALSE

\* C37: one run loop is active at most; a START_RUN that arrives while a run
\* is active, running or paused, is acknowledged with ok = false, starts no
\* loop, and leaves the run's flags, counters and row cursor as they are
C37_OneActiveLoop ==
  /\ Cardinality(ActiveLoops) <= 1
  /\ ActiveLoops # {} => \A m \in StartCommands : StartRejected(m)

\* the run is in its pause wait
C37_ActiveRunPaused ==
  /\ Len(loops) = 1 /\ loops[1].pc = "pauseWait"
  /\ storageState.paused /\ ~storageState.killSwitchEnabled
  /\ \A m \in StartCommands : Handle(HandlerWorld, m).outbox[1].error = "Run already in progress"

(***************************************************************************)
(* Properties of commands that name another run.                           *)
(***************************************************************************)
\* the PAUSE_RUN, RESUME_RUN and STOP_RUN commands whose runId is not the
\* id of the run the agent is executing
ForAnotherRun ==
  {m \in ControlCommands :
     /\ m.type \in {"CONTROL_PAUSE_RUN", "CONTROL_RESUME_RUN", "CONTROL_STOP_RUN"}
     /\ m.payload.runId # storageState.runId}

\* C38: a PAUSE_RUN, RESUME_RUN or STOP_RUN whose runId is not the id of the
\* active run leaves the paused and stopped flags of that run unchanged
C38_OtherRunIdHasNoEffect ==
  ActiveLoops # {} =>
    \A m \in ForAnotherRun :
      /\ Handle(HandlerWorld, m).ss.paused = storageState.paused
      /\ Handle(HandlerWorld, m).ss.stopped = storageState.stopped

(***************************************************************************)
(* Properties of the controller's user actions.                            *)
(***************************************************************************)
\* the command a user action of the controller sends
StartMessage(runId) ==
  StartRun("q1", runId, RunSettings(FALSE, FALSE, FALSE), createRun(runId).lastCompletedRow + 1)

\* the agent answers the command with an ACK whose ok is true
PositivelyAcknowledged(m) ==
  LET out == Handle(HandlerWorld, m).outbox
  IN \E k \in DOMAIN out :
       /\ out[k].type = "AGENT_ACK"
       /\ out[k].requestId = m.payload.requestId
       /\ out[k].ok

\* the status of the record of runId after the step is not what it was
StatusSet(runId) ==
  \/ runId \notin DOMAIN runs
  \/ runs'[runId].status # runs[runId].status

\* C39: a user action sets the status of a Run record to running, paused or
\* stopped only if the agent acknowledged the command with ok = true
C39_StatusOnlyWhenAcknowledged ==
  [][\A runId \in RunIds :
       /\ handleStartRun(runId) /\ StatusSet(runId) => PositivelyAcknowledged(StartMessage(runId))
       /\ handlePauseRun(runId) /\ StatusSet(runId)
            => PositivelyAcknowledged(RunCommand("CONTROL_PAUSE_RUN", "q1", runId))
       /\ handleResumeRun(runId) /\ StatusSet(runId)
            => PositivelyAcknowledged(RunCommand("CONTROL_RESUME_RUN", "q1", runId))
       /\ handleStopRun(runId) /\ StatusSet(runId)
            => PositivelyAcknowledged(RunCommand("CONTROL_STOP_RUN", "q1", runId))]_vars

(***************************************************************************)
(* Properties of the promises of sendCommand.                              *)
(***************************************************************************)
\* resolve or reject has been called once at most on every promise, a
\* promise is pending exactly while neither has been called, and the pending
\* entry belongs to a promise that is pending
SettledOnce ==
  /\ \A fut \in DOMAIN futures :
       /\ futures[fut].settled <= 1
       /\ futures[fut].state = "pending" <=> futures[fut].settled = 0
       /\ futures[fut].state = "resolved" => futures[fut].value \in {Ack("r1", TRUE).f.payload}
       /\ futures[fut].state = "rejected" => futures[fut].value \in {JsStr(ErrNoAck), JsStr(ErrConflict)}
  /\ \A requestId \in DOMAIN pending : futures[pending[requestId].fut].state = "pending"

\* the message is not an ACK of the pending command
MatchesNoPending(message) ==
  ~ /\ validateMessage(message)
    /\ message.f.type.s = "AGENT_ACK"
    /\ message.f.payload.f.requestId.tag = "string"
    /\ message.f.payload.f.requestId.s \in DOMAIN pending

\* C40: every promise returned by sendCommand settles exactly once and
\* eventually, resolved with one ACK payload or rejected with one error,
\* whatever the order of ACK arrivals and timer expiries; an ACK whose
\* requestId matches no pending command leaves the pending entry untouched
C40_SettlesOnceAndEventually ==
  /\ []SettledOnce
  /\ [][\A m \in SettleMessages :
          (handleIncoming(m) /\ MatchesNoPending(m)) => UNCHANGED <<pending, futures, timers>>]_vars
  /\ \A fut \in 1..MaxCalls :
       (Len(futures) >= fut) ~> (Len(futures) >= fut /\ futures[fut].state # "pending")

\* a promise was resolved by its ACK, another was rejected after its last
\* timer, and an ACK for a requestId that was not pending has arrived
C40_ResolvedRejectedAndStrayAck ==
  /\ \E fut \in DOMAIN futures : futures[fut].state = "resolved"
  /\ \E fut \in DOMAIN futures : futures[fut].value = JsStr(ErrNoAck)
  /\ pending = << >>
  /\ Len(delivered) = 2
  /\ delivered[1] = delivered[2]

====
